---- MODULE Spec2Model ----
(***************************************************************************)
(* Model of go-slim/proc.  Spec: the signal listener registry and          *)
(* dispatcher (signal.go): the listener table lns, the id counter seq, the *)
(* registry lock, the registration mask, and the goroutines that Notify    *)
(* starts.  SpecWrap: the once-wrapper of a callback.  SpecSys: Wait,      *)
(* Shutdown (shutdown.go) and the goroutine that receives the signals of   *)
(* the OS.  SpecExec: one call of Exec (exec.go) with its context, its     *)
(* child and the watching done by os/exec.                                 *)
(***************************************************************************)
EXTENDS Integers, Sequences, FiniteSets, TLC

\* ------------------------------------------------------------------ bounds
NumProcs == 2      \* caller goroutines that use the package API
MaxSeq == 2        \* registrations that succeed in one run
MaxNotify == 2     \* Notify calls that pass signum in one run
MaxIds == 3        \* longest argument list given to Cancel
MaxSignals == 2    \* signals that the OS sends to the process in one run
MaxDelay == 2      \* the delay before the forced quit, when it is not 0
MaxKills == 1      \* calls of the termination function in one run
MaxTimeout == 2    \* the Timeout of Exec, when it is not 0
MaxTTK == 1        \* the TTK of Exec, when it is not 0
MaxClock == 4      \* the time up to which one Exec call is followed

\* ------------------------------------------------------- program constants
numSig == 65

Free == <<>>       \* the lock is held by no goroutine

\* os.Signal values: syscall.Signal numbers, and one value of another type
Sys(n) == [t |-> "syscall", n |-> n]
Bogus == [t |-> "bogus", n |-> 0]
ValidNums == {15, 47}
SigValues == {Sys(n) : n \in ValidNums \cup {-1, numSig}} \cup {Bogus}

\* what a user callback does when it runs
KindSets == {{"plain", "nil"}, {"plain", "panic"}, {"cancel"}, {"on"},
             {"notify"}}

VARIABLES seq, lock, lns, mask, osreg, so, thr, nNotify, crashed, kinds,
          last, runs, issued, removed

\* the process around the registry: the package functions that the callers
\* use (api), the channel of the signal bridge and the number of signals the
\* OS has sent, the delay before the forced quit, the termination function
\* and its invocations, the time, the end of the process
VARIABLES api, sigch, nsig, delay, killFn, kills, now, exited

\* the Exec call
VARIABLES ex

sysvars == <<api, sigch, nsig, delay, killFn, kills, now, exited>>
outside == <<sysvars, ex>>

vars == <<seq, lock, lns, mask, osreg, so, thr, nNotify, crashed, kinds,
          last, runs, issued, removed, sysvars, ex>>

\* ---------------------------------------------------------- pure functions
\* mutant: the range test lets numSig through
signumLoose(sig) ==
    IF sig.t = "syscall"
    THEN IF sig.n < 0 \/ sig.n > numSig THEN -1 ELSE sig.n
    ELSE -1

\* signum: the number of a syscall.Signal within 0..numSig-1, else -1
signum(sig) ==
    IF sig.t = "syscall"
    THEN IF sig.n < 0 \/ sig.n >= numSig THEN -1 ELSE sig.n
    ELSE -1

RECURSIVE Pow2(_)
Pow2(k) == IF k = 0 THEN 1 ELSE 2 * Pow2(k - 1)

\* mutant: the mask is overwritten with the bit of n
MaskSetOnly(m, n) == Pow2(n % 32)

\* (mask >> uint(n&31)) & 1
MaskBit(m, n) == (m \div Pow2(n % 32)) % 2
\* mask | 1 << uint(n&31)
MaskSet(m, n) == IF MaskBit(m, n) = 1 THEN m ELSE m + Pow2(n % 32)

\* mutant: the counter stops at 1
AtomicAddStale(v, d) == IF v = 0 THEN 1 ELSE v

\* atomic.AddUint32(&seq, 1) returns the new value; seq stays below MaxSeq,
\* far from the uint32 wraparound
AtomicAddUint32(v, d) == v + d

NilFn == [kind |-> "nil", env |-> 0, sig |-> 0, so |-> 0]
IsNil(f) == f.kind = "nil" /\ f.so = 0

\* mutant: the closure calls fn without the sync.Once
wrapPlain(fn, once, h) == fn

\* wrap(fn, once): fn itself, or a closure over a fresh sync.Once (handle h)
wrap(fn, once, h) == IF ~once THEN fn ELSE [fn EXCEPT !.so = h]

\* mutant: the last element is moved to the place of the deleted one
DeleteSwap(s, i) ==
    [k \in 1..(Len(s) - 1) |-> IF k = i + 1 THEN s[Len(s)] ELSE s[k]]

\* slices.Delete(s, i, i+1) with the 0-based index i
Delete(s, i) == SubSeq(s, 1, i) \o SubSeq(s, i + 2, Len(s))
\* slices.Contains(ids, id)
Contains(ids, id) == \E k \in 1..Len(ids) : ids[k] = id

\* mutant: only the first id of the list is looked up
DeleteFuncFirst(s, ids) ==
    SelectSeq(s, LAMBDA l : ~(ids # <<>> /\ ids[1] = l.id))

\* slices.DeleteFunc(lns, func(l) bool { return slices.Contains(ids, l.id) })
DeleteFunc(s, ids) == SelectSeq(s, LAMBDA l : ~Contains(ids, l.id))

\* mutant: the scan keeps the once listeners in the table
RECURSIVE ScanLoopKeep(_, _, _, _)
ScanLoopKeep(tab, fs, i, n) ==
    IF i < 0 THEN [lns |-> tab, fs |-> fs]
    ELSE LET l == tab[i + 1] IN
         IF l.sig = n
         THEN ScanLoopKeep(tab, Append(fs, l.fn), i - 1, n)
         ELSE ScanLoopKeep(tab, fs, i - 1, n)

\* mutant: the scan stops at the first listener that matches
RECURSIVE ScanLoopBreak(_, _, _, _)
ScanLoopBreak(tab, fs, i, n) ==
    IF i < 0 THEN [lns |-> tab, fs |-> fs]
    ELSE LET l == tab[i + 1] IN
         IF l.sig = n
         THEN [lns |-> IF l.once THEN Delete(tab, i) ELSE tab,
               fs |-> Append(fs, l.fn)]
         ELSE ScanLoopBreak(tab, fs, i - 1, n)

\* mutant: the scan removes every listener that matches
RECURSIVE ScanLoopDrop(_, _, _, _)
ScanLoopDrop(tab, fs, i, n) ==
    IF i < 0 THEN [lns |-> tab, fs |-> fs]
    ELSE LET l == tab[i + 1] IN
         IF l.sig = n
         THEN ScanLoopDrop(Delete(tab, i), Append(fs, l.fn), i - 1, n)
         ELSE ScanLoopDrop(tab, fs, i - 1, n)

\* mutant: the scan puts a callback in front of those it has collected
RECURSIVE ScanLoopFront(_, _, _, _)
ScanLoopFront(tab, fs, i, n) ==
    IF i < 0 THEN [lns |-> tab, fs |-> fs]
    ELSE LET l == tab[i + 1] IN
         IF l.sig = n
         THEN ScanLoopFront(IF l.once THEN Delete(tab, i) ELSE tab,
                            <<l.fn>> \o fs, i - 1, n)
         ELSE ScanLoopFront(tab, fs, i - 1, n)

\* mutant: after a deletion the scan steps over one listener
RECURSIVE ScanLoopSkip(_, _, _, _)
ScanLoopSkip(tab, fs, i, n) ==
    IF i < 0 THEN [lns |-> tab, fs |-> fs]
    ELSE LET l == tab[i + 1] IN
         IF l.sig = n
         THEN IF l.once
              THEN ScanLoopSkip(Delete(tab, i), Append(fs, l.fn), i - 2, n)
              ELSE ScanLoopSkip(tab, Append(fs, l.fn), i - 1, n)
         ELSE ScanLoopSkip(tab, fs, i - 1, n)

\* the scan loop of Notify: for i := l - 1; i >= 0; i-- { ... }
RECURSIVE ScanLoop(_, _, _, _)
ScanLoop(tab, fs, i, n) ==
    IF i < 0 THEN [lns |-> tab, fs |-> fs]
    ELSE LET l == tab[i + 1] IN
         IF l.sig = n
         THEN ScanLoop(IF l.once THEN Delete(tab, i) ELSE tab,
                       Append(fs, l.fn), i - 1, n)
         ELSE ScanLoop(tab, fs, i - 1, n)

\* n of Cancel: len(ids) minus the number of zero ids
RECURSIVE NonZero(_)
NonZero(ids) ==
    IF ids = <<>> THEN 0
    ELSE (IF Head(ids) = 0 THEN 0 ELSE 1) + NonZero(Tail(ids))

\* ------------------------------------------------------------- goroutines
Procs == {<<p>> : p \in 1..NumProcs}
Parent(c) == SubSeq(c, 1, Len(c) - 1)
IsTask(t) == Len(t) > 1
LidOf(f) == IF f.so # 0 THEN f.so ELSE f.env

\* up: the calls of package functions (Wait, Shutdown, the signal bridge)
\* that the goroutine is inside of, innermost first; ord: for the goroutine
\* of a callback, the turn of the loop over fs that started it
Idle == [pc |-> "idle", me |-> NilFn, sig |-> 0, fs |-> <<>>, wg |-> 0,
         nrun |-> 0, npanic |-> 0, up |-> <<>>, ord |-> 0]

\* the frame of a package function: its argument, the signal it passes to
\* the call it makes, the value that the call returned, for Wait whether
\* its channel is closed, for Shutdown the time at which it was called,
\* for the bridge the runs of each callback when the signal was received
Frame(fn, arg, sig) ==
    [fn |-> fn, arg |-> arg, sig |-> sig, ret |-> 0, closed |-> FALSE,
     t0 |-> 0, seen |-> <<>>]

\* the function of the registry that package function fn calls
Callee(fn) == IF fn = "Wait" THEN "on" ELSE "notify"

\* last: the call that returned in the step that led to this state, if any
NoCall == [op |-> "none", ret |-> 0, mix |-> FALSE]

\* the frame of goroutine t after its current call returned
Returned(t) ==
    IF IsTask(t) THEN [Idle EXCEPT !.pc = "after", !.me = thr[t].me] ELSE Idle

\* the same when the call returns v: inside a package function the goroutine
\* goes on in that function, which holds v
Ret(t, v) ==
    IF thr[t].up = <<>> THEN Returned(t)
    ELSE [Idle EXCEPT !.pc = "ret",
                      !.up = <<[Head(thr[t].up) EXCEPT !.ret = v]>>
                             \o Tail(thr[t].up)]

\* argument lists of Cancel: 0, the ids of the run, and MaxSeq + 1 for an id
\* that no listener has.  Cancel reads ids through len, the zero test and
\* slices.Contains, which depend neither on the order nor on the repetition
\* of an id that is not zero, so one order is kept and only 0 is repeated.
IdSeqs ==
    {ids \in UNION {[1..k -> 0..(MaxSeq + 1)] : k \in 0..MaxIds} :
        \A i \in 1..(Len(ids) - 1) :
           ids[i] < ids[i + 1] \/ (ids[i] = 0 /\ ids[i + 1] = 0)}
IdsOf(tab) == {tab[k].id : k \in 1..Len(tab)}

\* the error that Exec returns: its kind (the message put in front) and
\* the error that it wraps
Err(kind, wraps) == [kind |-> kind, wraps |-> wraps]
NoErr == Err("nil", "none")

\* the three streams of a command
Streams == {"stdin", "stdout", "stderr"}

\* the Exec call before it starts: the options Timeout, TTK, OnStart, the
\* streams that the options give (io) and whether Command can be started;
\* the streams that the child got (fds); the caller's context and the context
\* derived for the Timeout, with its deadline and whether its cancel
\* function was called; the child and its exit code; the goroutine of
\* os/exec that watches the context; the signals sent to the child; the
\* calls of OnStart; the error of cmd.Wait and the error returned
NoExec ==
    [pc |-> "none", timeout |-> 0, ttk |-> 0, onStart |-> FALSE,
     cmdOK |-> TRUE, io |-> {}, fds |-> [s \in Streams |-> "none"],
     parent |-> "live", ctx |-> "none", deadline |-> 0,
     cancelled |-> FALSE, child |-> "none", code |-> 0, watch |-> "off",
     tc |-> 0, sent |-> <<>>, nOnStart |-> 0, waiterr |-> "none",
     err |-> NoErr]

Init ==
    /\ seq = 0
    /\ lock = Free
    /\ lns = <<>>
    /\ mask = 0
    /\ osreg = [n \in {1, 2, 3, 15} |-> 1]
    /\ so = [h \in {} |-> FALSE]
    /\ thr = [t \in Procs |-> Idle]
    /\ nNotify = 0
    /\ crashed = FALSE
    /\ kinds \in KindSets
    /\ last = NoCall
    /\ runs = [i \in {} |-> 0]
    /\ issued = [i \in {} |-> 0]
    /\ removed = {}
    /\ api = {"on", "cancel", "notify"}
    /\ sigch = <<>>
    /\ nsig = 0
    /\ delay = 0
    /\ killFn = "stub"
    /\ kills = <<>>
    /\ now = 0
    /\ exited = FALSE
    /\ ex = NoExec

\* the process runs: no panic went unrecovered and os.Exit was not called
Running == ~crashed /\ ~exited

\* the registrations that a run follows: MaxSeq, and one more in the runs
\* made for the order of the table ("table" in api), which have callbacks
\* that only return
SeqCap == IF "table" \in api THEN MaxSeq + 1 ELSE MaxSeq

\* goroutine t is about to make a call: a caller between two calls, or a
\* callback of kind k at the point where its body makes the call
Calls(t, k) ==
    \/ t \in Procs /\ thr[t].pc = "idle" /\ k \in api
    \/ IsTask(t) /\ thr[t].pc = "body" /\ thr[t].me.kind = k
    \/ thr[t].pc = "call" /\ Callee(Head(thr[t].up).fn) = k

\* ------------------------------------------------------------ On and Once
\* add with a signal that signum rejects: returns 0
AddInvalid(t, sig, once) ==
    /\ Running
    /\ t \in Procs /\ thr[t].pc = "idle"
    /\ ~(signum(sig) > -1)
    /\ last' = [NoCall EXCEPT !.op = "add"]
    /\ UNCHANGED <<seq, lock, lns, mask, osreg, so, thr, nNotify, crashed,
                   kinds, runs, issued, removed>>
    /\ UNCHANGED outside

\* add with a signal that signum accepts, up to lock.Lock()
AddLock(t) ==
    /\ Running
    /\ Calls(t, "on")
    /\ lock = Free
    /\ thr[t].up # <<>> \/ seq < SeqCap
    /\ lock' = t
    /\ thr' = [thr EXCEPT ![t].pc = "add"]
    /\ last' = NoCall
    /\ UNCHANGED <<seq, lns, mask, osreg, so, nNotify, crashed, kinds, runs,
                   issued, removed>>
    /\ UNCHANGED outside

\* add from the mask test to the return, the deferred Unlock included; the
\* arguments of the call are first used here.  A callback of kind "on"
\* registers a plain listener for its own signal.
AddBody(t, sig, k, once) ==
    /\ Running
    /\ thr[t].pc = "add"
    /\ signum(sig) > -1
    /\ IF IsTask(t) THEN k = "plain" /\ signum(sig) = thr[t].me.sig
       ELSE IF thr[t].up # <<>>
       THEN k = "close" /\ once /\ sig = Head(thr[t].up).sig
       ELSE k \in kinds
    /\ LET n == signum(sig)
           first == MaskBit(mask, n) = 0
           id == AtomicAddUint32(seq, 1)
           ufn == IF k = "nil" THEN NilFn
                  ELSE [kind |-> k, env |-> id, sig |-> n, so |-> 0]
       IN /\ mask' = IF first THEN MaskSet(mask, n) ELSE mask
          /\ osreg' = IF ~first THEN osreg
                      ELSE IF n \in DOMAIN osreg
                           THEN [osreg EXCEPT ![n] = @ + 1]
                           ELSE (n :> 1) @@ osreg
          /\ seq' = id
          /\ lns' = Append(lns, [id |-> id, fn |-> wrap(ufn, once, id),
                                 sig |-> n, once |-> once])
          /\ so' = IF once THEN (id :> FALSE) @@ so ELSE so
          /\ runs' = (id :> 0) @@ runs
          /\ issued' = IF id \in DOMAIN issued
                       THEN [issued EXCEPT ![id] = @ + 1]
                       ELSE (id :> 1) @@ issued
          /\ last' = [NoCall EXCEPT !.op = "add", !.ret = id]
          /\ thr' = [thr EXCEPT ![t] = Ret(t, id)]
    /\ lock' = Free
    /\ UNCHANGED <<nNotify, crashed, kinds, removed>>
    /\ UNCHANGED outside

\* ----------------------------------------------------------------- Cancel
\* Cancel whose ids are all zero (or absent): returns before the lock
CancelNoop(t, ids) ==
    /\ Running
    /\ t \in Procs /\ thr[t].pc = "idle"
    /\ NonZero(ids) = 0
    /\ last' = [NoCall EXCEPT !.op = "cancel"]
    /\ UNCHANGED <<seq, lock, lns, mask, osreg, so, thr, nNotify, crashed,
                   kinds, runs, issued, removed>>
    /\ UNCHANGED outside

\* ids holds a zero id, an id of no listener and the id of a listener
Mixed(ids) ==
    /\ Contains(ids, 0)
    /\ \E k \in 1..Len(ids) : ids[k] # 0 /\ ids[k] \notin IdsOf(lns)
    /\ \E k \in 1..Len(ids) : ids[k] \in IdsOf(lns)

\* Cancel with an id that is not zero, up to lock.Lock()
CancelLock(t) ==
    /\ Running
    /\ Calls(t, "cancel")
    /\ lock = Free
    /\ lock' = t
    /\ thr' = [thr EXCEPT ![t].pc = "cancel"]
    /\ last' = NoCall
    /\ UNCHANGED <<seq, lns, mask, osreg, so, nNotify, crashed, kinds, runs,
                   issued, removed>>
    /\ UNCHANGED outside

\* Cancel from slices.DeleteFunc to lock.Unlock(); the ids are first used
\* here.  A callback of kind "cancel" cancels its own listener.
CancelBody(t, ids) ==
    /\ Running
    /\ thr[t].pc = "cancel"
    /\ NonZero(ids) # 0
    /\ IsTask(t) => ids = <<thr[t].me.env>>
    /\ lns' = DeleteFunc(lns, ids)
    /\ removed' = removed \cup (IdsOf(lns) \ IdsOf(lns'))
    /\ lock' = Free
    /\ last' = [NoCall EXCEPT !.op = "cancel", !.mix = Mixed(ids)]
    /\ thr' = [thr EXCEPT ![t] = Returned(t)]
    /\ UNCHANGED <<seq, mask, osreg, so, nNotify, crashed, kinds, runs,
                   issued>>
    /\ UNCHANGED outside

\* ----------------------------------------------------------------- Notify
\* Notify with a signal that signum rejects: returns false
NotifyInvalid(t, sig) ==
    /\ Running
    /\ t \in Procs /\ thr[t].pc = "idle"
    /\ signum(sig) = -1
    /\ last' = [NoCall EXCEPT !.op = "notify", !.ret = FALSE]
    /\ UNCHANGED <<seq, lock, lns, mask, osreg, so, thr, nNotify, crashed,
                   kinds, runs, issued, removed>>
    /\ UNCHANGED outside

\* Notify with a signal that signum accepts, up to lock.Lock()
NotifyLock(t, sig) ==
    /\ Running
    /\ Calls(t, "notify")
    /\ signum(sig) # -1
    /\ thr[t].up # <<>> => sig = Head(thr[t].up).sig
    /\ lock = Free
    /\ thr[t].up # <<>> \/ nNotify < MaxNotify
    /\ lock' = t
    /\ nNotify' = nNotify + 1
    /\ thr' = [thr EXCEPT ![t].pc = "scan", ![t].sig = signum(sig)]
    /\ last' = NoCall
    /\ UNCHANGED <<seq, lns, mask, osreg, so, crashed, kinds, runs, issued,
                   removed>>
    /\ UNCHANGED outside

\* safeRunner's run(fn): wg.Add(1) and a new goroutine that will call fn
Spawn(fn) == [Idle EXCEPT !.pc = "spawned", !.me = fn]

\* the goroutines that the loop over fs starts for goroutine t: one for
\* every fn that is not nil
Dispatch(t, fs) ==
    LET live == {k \in 1..Len(fs) : ~IsNil(fs[k])}
        new == {Append(t, LidOf(fs[k])) : k \in live}
        ixOf(c) == CHOOSE k \in live : Append(t, LidOf(fs[k])) = c
    IN [c \in DOMAIN thr \cup new |->
          IF c \in new THEN [Spawn(fs[ixOf(c)]) EXCEPT !.ord = ixOf(c)]
          ELSE IF c = t
               THEN [thr[t] EXCEPT !.pc = "wait", !.fs = fs,
                                   !.wg = Cardinality(live)]
               ELSE thr[c]]

\* mutant: the lock is kept while the callbacks run
ScanKeepLock(t) == t

\* the holder of the lock after the lock.Unlock() that follows the scan
ScanUnlock(t) == Free

\* Notify from the scan of the table to wg.Wait(): the scan, lock.Unlock(),
\* the return of false when fs is empty, the loop that starts the goroutines
NotifyScan(t) ==
    /\ Running
    /\ thr[t].pc = "scan"
    /\ LET r == ScanLoop(lns, <<>>, Len(lns) - 1, thr[t].sig)
       IN /\ lns' = r.lns
          /\ removed' = removed \cup (IdsOf(lns) \ IdsOf(r.lns))
          /\ IF Len(r.fs) = 0
             THEN /\ thr' = [thr EXCEPT ![t] = Ret(t, FALSE)]
                  /\ last' = [NoCall EXCEPT !.op = "notify", !.ret = FALSE]
             ELSE /\ thr' = Dispatch(t, r.fs)
                  /\ last' = NoCall
    /\ lock' = ScanUnlock(t)
    /\ UNCHANGED <<seq, mask, osreg, so, nNotify, crashed, kinds, runs, issued>>
    /\ UNCHANGED outside

\* mutant: Notify does not wait
WgNoWait(t) == TRUE

\* wg.Wait() returns once the counter of the WaitGroup is 0
WgWait(t) == thr[t].wg = 0

\* wg.Wait() and return true
NotifyReturn(t) ==
    /\ Running
    /\ thr[t].pc = "wait"
    /\ WgWait(t)
    /\ last' = [NoCall EXCEPT !.op = "notify", !.ret = TRUE]
    /\ thr' = [thr EXCEPT ![t] = Ret(t, TRUE)]
    /\ UNCHANGED <<seq, lock, lns, mask, osreg, so, nNotify, crashed, kinds,
                   runs, issued, removed>>
    /\ UNCHANGED outside

\* ------------------------------------------------- the callback goroutines
\* mutant: the panic is logged and goes on
recoveryRethrow(p) == p

\* recovery(): recover() ends the panic p, which is only logged
recovery(p) == "none"

\* the goroutine of safeRunner ends with wg.Done(); np is 1 after a panic
Exit(c, np) ==
    [x \in DOMAIN thr \ {c} |->
        IF x = Parent(c)
        THEN [thr[x] EXCEPT !.wg = @ - 1, !.npanic = @ + np] ELSE thr[x]]

\* the goroutine panics with p: the deferred recovery(), then wg.Done()
Panic(c, p) ==
    IF recovery(p) = "none"
    THEN thr' = Exit(c, 1) /\ crashed' = crashed
    ELSE thr' = thr /\ crashed' = TRUE

\* the goroutine calls fn(): the closure of wrap runs so.Do(fn), where a
\* nil fn panics; any other fn starts to run
TaskStart(c) ==
    /\ Running
    /\ IsTask(c) /\ thr[c].pc = "spawned"
    /\ LET f == thr[c].me
           p == Parent(c)
       IN /\ so' = IF f.so # 0 THEN [so EXCEPT ![f.so] = TRUE] ELSE so
          /\ IF f.so # 0 /\ so[f.so]
             THEN /\ thr' = Exit(c, 0)
                  /\ UNCHANGED <<runs, crashed>>
             ELSE IF f.kind = "nil"
             THEN /\ Panic(c, "nil")
                  /\ runs' = runs
             ELSE /\ thr' = [thr EXCEPT ![c].pc = "body", ![p].nrun = @ + 1]
                  /\ runs' = [runs EXCEPT ![LidOf(f)] = @ + 1]
                  /\ crashed' = crashed
    /\ last' = NoCall
    /\ UNCHANGED <<seq, lock, lns, mask, osreg, nNotify, kinds, issued,
                   removed>>
    /\ UNCHANGED outside

\* a callback that panics
TaskPanic(c) ==
    /\ Running
    /\ IsTask(c) /\ thr[c].pc = "body" /\ thr[c].me.kind = "panic"
    /\ Panic(c, "boom")
    /\ last' = NoCall
    /\ UNCHANGED <<seq, lock, lns, mask, osreg, so, nNotify, kinds, runs,
                   issued, removed>>
    /\ UNCHANGED outside

\* the callback returns: the deferred recovery() finds no panic, wg.Done()
\* (a callback of kind "on" or "notify" makes no call once the run has used
\* up MaxSeq or MaxNotify)
TaskReturn(c) ==
    /\ Running
    /\ IsTask(c)
    /\ \/ thr[c].pc = "after"
       \/ /\ thr[c].pc = "body"
          /\ \/ thr[c].me.kind = "plain"
             \/ thr[c].me.kind = "on" /\ seq >= SeqCap
             \/ thr[c].me.kind = "notify" /\ nNotify >= MaxNotify
    /\ thr' = Exit(c, 0)
    /\ last' = NoCall
    /\ UNCHANGED <<seq, lock, lns, mask, osreg, so, nNotify, crashed, kinds,
                   runs, issued, removed>>
    /\ UNCHANGED outside

Threads == DOMAIN thr

Next ==
    \/ \E t \in Procs, sig \in SigValues, once \in BOOLEAN :
         AddInvalid(t, sig, once)
    \/ \E t \in Threads : AddLock(t)
    \/ \E t \in Threads, sig \in SigValues, k \in kinds \cup {"plain"},
          once \in BOOLEAN : AddBody(t, sig, k, once)
    \/ \E t \in Procs, ids \in IdSeqs : CancelNoop(t, ids)
    \/ \E t \in Threads : CancelLock(t)
    \/ \E t \in Threads, ids \in IdSeqs : CancelBody(t, ids)
    \/ \E t \in Procs, sig \in SigValues : NotifyInvalid(t, sig)
    \/ \E t \in Threads, sig \in SigValues : NotifyLock(t, sig)
    \/ \E t \in Threads : NotifyScan(t)
    \/ \E t \in Threads : NotifyReturn(t)
    \/ \E c \in Threads : TaskStart(c)
    \/ \E c \in Threads : TaskPanic(c)
    \/ \E c \in Threads : TaskReturn(c)

Spec == Init /\ [][Next]_vars

\* ------------------------------------------------------------------- Wait
\* Wait(sig): wait := make(chan struct{}) and the call of Once.  With a
\* signal that signum rejects Once returns 0 at once and Wait goes on to
\* the receive
WaitCall(t, sig) ==
    /\ Running
    /\ t \in Procs /\ thr[t].pc = "idle" /\ "Wait" \in api
    /\ IF signum(sig) > -1
       THEN /\ seq < SeqCap
            /\ thr' = [thr EXCEPT ![t].pc = "call",
                                  ![t].up = <<Frame("Wait", sig, sig)>>]
       ELSE thr' = [thr EXCEPT ![t].pc = "ret",
                               ![t].up = <<Frame("Wait", sig, sig)>>]
    /\ last' = NoCall
    /\ UNCHANGED <<seq, lock, lns, mask, osreg, so, nNotify, crashed, kinds,
                   runs, issued, removed>>
    /\ UNCHANGED outside

\* the goroutine inside Wait whose Once call returned the listener id
WaiterOf(id) ==
    {w \in DOMAIN thr :
        /\ thr[w].up # <<>>
        /\ Head(thr[w].up).fn = "Wait" /\ Head(thr[w].up).ret = id}

\* the callback that Wait registered: close(wait)
TaskClose(c) ==
    /\ Running
    /\ IsTask(c) /\ thr[c].pc = "body" /\ thr[c].me.kind = "close"
    /\ thr' = [x \in DOMAIN thr |->
                 IF x = c THEN [thr[c] EXCEPT !.pc = "after"]
                 ELSE IF x \in WaiterOf(thr[c].me.env)
                 THEN [thr[x] EXCEPT !.up = <<[Head(@) EXCEPT !.closed = TRUE]>>
                                            \o Tail(@)]
                 ELSE thr[x]]
    /\ last' = NoCall
    /\ UNCHANGED <<seq, lock, lns, mask, osreg, so, nNotify, crashed, kinds,
                   runs, issued, removed>>
    /\ UNCHANGED outside

\* mutant: the receive does not block
RecvAny(f) == TRUE

\* a receive from the channel of frame f can proceed: the channel, which
\* nothing is ever sent on, is closed
RecvReady(f) == f.closed

\* <-wait: the receive returns once the channel is closed, and Wait returns
WaitRecv(t) ==
    /\ Running
    /\ thr[t].pc = "ret" /\ Head(thr[t].up).fn = "Wait"
    /\ RecvReady(Head(thr[t].up))
    /\ thr' = [thr EXCEPT ![t] = Idle]
    /\ last' = [NoCall EXCEPT !.op = "wait", !.ret = Head(thr[t].up).ret]
    /\ UNCHANGED <<seq, lock, lns, mask, osreg, so, nNotify, crashed, kinds,
                   runs, issued, removed>>
    /\ UNCHANGED outside

\* --------------------------------------------------------------- Shutdown
SIGINT == 2
SIGTERM == 15
\* case syscall.SIGHUP, syscall.SIGINT, syscall.SIGQUIT, syscall.SIGTERM
TermSigs == {1, 2, 3, SIGTERM}

\* the goroutine of the signal bridge
Bridge == <<0>>

\* the goroutine that a go statement starts: an id that no goroutine has
GoOf(t) ==
    LET k == CHOOSE k \in 1..(Cardinality(DOMAIN thr) + 1) :
                /\ <<-k>> \notin DOMAIN thr
                /\ \A j \in 1..(k - 1) : <<-j>> \in DOMAIN thr
    IN <<-k>>

\* mutant: Shutdown notifies the listeners of its argument
NotifiedSame(sig) == sig

\* the signal that Shutdown(sig) notifies: syscall.SIGTERM
Notified(sig) == Sys(SIGTERM)

\* mutant: Notify is called in the goroutine of Shutdown whatever the delay
InBackgroundNever(d) == FALSE

\* if delayTimeBeforeForceQuit > 0: Notify runs in a goroutine of its own
InBackground(d) == d > 0

\* Shutdown(sig) up to its call of killFn, in goroutine t that is inside
\* the calls of stack below: with a delay, go Notify(syscall.SIGTERM) and
\* time.Sleep; without, the call Notify(syscall.SIGTERM)
EnterShutdown(t, sig, below) ==
    LET f == [Frame("Shutdown", sig, Notified(sig)) EXCEPT !.t0 = now]
        g == GoOf(t)
    IN IF InBackground(delay)
       THEN [x \in DOMAIN thr \cup {g} |->
               IF x = t
               THEN [Idle EXCEPT !.pc = "sleep", !.up = <<f>> \o below]
               ELSE IF x = g
               THEN [Idle EXCEPT
                       !.pc = "call",
                       !.up = <<Frame("go", Notified(sig), Notified(sig))>>]
               ELSE thr[x]]
       ELSE [thr EXCEPT ![t] = [Idle EXCEPT !.pc = "call",
                                            !.up = <<f>> \o below]]

\* the goroutines that are inside Shutdown
InShutdown ==
    {t \in DOMAIN thr : \E k \in 1..Len(thr[t].up) :
                           thr[t].up[k].fn = "Shutdown"}

\* a caller calls Shutdown(sig)
ShutdownCall(t, sig) ==
    /\ Running
    /\ t \in Procs /\ thr[t].pc = "idle" /\ "Shutdown" \in api
    /\ signum(sig) > -1
    /\ Len(kills) + Cardinality(InShutdown) < MaxKills
    /\ thr' = EnterShutdown(t, sig, <<>>)
    /\ last' = NoCall
    /\ UNCHANGED <<seq, lock, lns, mask, osreg, so, nNotify, crashed, kinds,
                   runs, issued, removed, sysvars, ex>>

\* the goroutine of go Notify(syscall.SIGTERM) ends when Notify returns
GoEnd(g) ==
    /\ Running
    /\ thr[g].pc = "ret" /\ Head(thr[g].up).fn = "go"
    /\ thr' = [x \in DOMAIN thr \ {g} |-> thr[x]]
    /\ last' = NoCall
    /\ UNCHANGED <<seq, lock, lns, mask, osreg, so, nNotify, crashed, kinds,
                   runs, issued, removed, sysvars, ex>>

\* time passes while a goroutine sleeps
Tick ==
    /\ Running
    /\ \E t \in DOMAIN thr :
          /\ thr[t].pc = "sleep"
          /\ now < Head(thr[t].up).t0 + delay
    /\ now' = now + 1
    /\ last' = NoCall
    /\ UNCHANGED <<seq, lock, lns, mask, osreg, so, thr, nNotify, crashed,
                   kinds, runs, issued, removed, api, sigch, nsig, delay,
                   killFn, kills, exited, ex>>

\* signal n is sent to the process: signal.Notify made the runtime pass it
\* to sigch with a send that does not block, so it is dropped when the
\* buffer of one is full; a signal that was never registered has its
\* default disposition, which ends the process
Send(n) ==
    IF n \in DOMAIN osreg
    THEN /\ sigch' = IF Len(sigch) < 1 THEN Append(sigch, n) ELSE sigch
         /\ exited' = exited
    ELSE /\ sigch' = sigch
         /\ exited' = TRUE

\* mutant: the error of the termination function is dropped
ShutdownNil(r) == "nil"

\* return killFn(sig)
ShutdownResult(r) == r

\* mutant: time.Sleep returns at once
SleepNone(t0, d, t) == TRUE

\* time.Sleep(d) that began at t0 can return at time t
SleepOver(t0, d, t) == t >= t0 + d

\* Shutdown from the return of Notify, or from the end of time.Sleep, to its
\* own return: killFn(sig) returns r.  The stub of the tests returns nil or
\* an error; kill sends sig to the process itself
ShutdownKill(t, r) ==
    /\ Running
    /\ thr[t].up # <<>> /\ Head(thr[t].up).fn = "Shutdown"
    /\ \/ thr[t].pc = "ret"
       \/ /\ thr[t].pc = "sleep"
          /\ SleepOver(Head(thr[t].up).t0, delay, now)
    /\ LET f == Head(thr[t].up)
           below == Tail(thr[t].up)
           v == ShutdownResult(r)
       IN /\ kills' = Append(kills, [sig |-> f.arg, t0 |-> f.t0,
                                     at |-> now, res |-> r])
          /\ IF killFn = "kill"
             THEN r = "nil" /\ Send(signum(f.arg))
             ELSE UNCHANGED <<sigch, exited>>
          /\ thr' = [thr EXCEPT ![t] =
                       IF below = <<>> THEN Idle
                       ELSE [Idle EXCEPT
                               !.pc = "ret",
                               !.up = <<[Head(below) EXCEPT !.ret = v]>>
                                      \o Tail(below)]]
          /\ last' = [NoCall EXCEPT !.op = "shutdown", !.ret = v]
    /\ UNCHANGED <<seq, lock, lns, mask, osreg, so, nNotify, crashed, kinds,
                   runs, issued, removed, api, nsig, delay, killFn, now, ex>>

\* ------------------------------------------------------ the signal bridge
\* the OS sends signal n to the process
Deliver(n) ==
    /\ Running
    /\ Bridge \in DOMAIN thr /\ "signal" \in api
    /\ nsig < MaxSignals
    /\ n \in DOMAIN osreg
    /\ nsig' = nsig + 1
    /\ Send(n)
    /\ last' = NoCall
    /\ UNCHANGED <<seq, lock, lns, mask, osreg, so, thr, nNotify, crashed,
                   kinds, runs, issued, removed, api, delay, killFn, kills,
                   now, ex>>

\* sig := <-sigch and the switch: Shutdown(syscall.SIGTERM) for the four
\* signals of termination, Notify(sig) for any other
BridgeRecv(b) ==
    /\ Running
    /\ b = Bridge /\ b \in DOMAIN thr /\ thr[b].pc = "loop"
    /\ sigch # <<>>
    /\ sigch' = Tail(sigch)
    /\ LET sig == Sys(Head(sigch))
           f == [Frame("bridge", sig, sig) EXCEPT !.seen = runs]
       IN thr' = IF Head(sigch) \in TermSigs
                 THEN EnterShutdown(b, Sys(SIGTERM), <<f>>)
                 ELSE [thr EXCEPT ![b] = [Idle EXCEPT !.pc = "call",
                                                      !.up = <<f>>]]
    /\ last' = NoCall
    /\ UNCHANGED <<seq, lock, lns, mask, osreg, so, nNotify, crashed, kinds,
                   runs, issued, removed, api, nsig, delay, killFn, kills,
                   now, exited, ex>>

\* mutant: the bridge ends the process only when Shutdown returned nil
ExitIfNil(r) == r = "nil"

\* signal.Stop(sigch) and os.Exit(0) follow Shutdown whatever it returned
ExitAfter(r) == TRUE

\* the bridge after the call it made returned: after Shutdown the process
\* ends; after Notify, whose result only chooses a debug line, the loop
\* goes on
BridgeNext(b) ==
    /\ Running
    /\ b = Bridge /\ b \in DOMAIN thr
    /\ thr[b].pc = "ret" /\ Head(thr[b].up).fn = "bridge"
    /\ LET f == Head(thr[b].up)
       IN IF f.arg.n \in TermSigs
          THEN /\ exited' = ExitAfter(f.ret)
               /\ thr' = [thr EXCEPT ![b] = [Idle EXCEPT !.pc = "loop"]]
          ELSE /\ exited' = exited
               /\ thr' = [thr EXCEPT ![b] = [Idle EXCEPT !.pc = "loop"]]
    /\ last' = [NoCall EXCEPT !.op = "bridge", !.ret = Head(thr[b].up).ret]
    /\ UNCHANGED <<seq, lock, lns, mask, osreg, so, nNotify, crashed, kinds,
                   runs, issued, removed, api, sigch, nsig, delay, killFn,
                   kills, now, ex>>

\* the programs of the callers: the package functions they use ("signal"
\* when the OS sends signals to the process during the run), the delay they
\* set with SetTimeToForceQuit, and the termination function: kill, or the
\* stub that the tests put in its place
Program(a, d, k) == [api |-> a, delay |-> d, killFn |-> k]
Programs ==
    {Program({"Wait", "signal"}, 0, "stub"),
     Program({"Wait", "notify"}, 0, "stub"),
     Program({"on", "signal"}, 0, "stub"),
     Program({"on", "signal"}, 0, "kill"),
     Program({"on", "signal"}, MaxDelay, "stub"),
     Program({"on", "notify", "Shutdown"}, 0, "stub")}
    \cup {Program({"on", "Shutdown"}, d, k) :
             d \in {0, MaxDelay}, k \in {"stub", "kill"}}

\* the process with its signal bridge, after init() of the package and the
\* SetTimeToForceQuit and the choice of killFn that the program made
InitSys ==
    /\ seq = 0
    /\ lock = Free
    /\ lns = <<>>
    /\ mask = 0
    /\ osreg = [n \in TermSigs |-> 1]
    /\ so = [h \in {} |-> FALSE]
    /\ thr = [t \in Procs \cup {Bridge} |->
                IF t = Bridge THEN [Idle EXCEPT !.pc = "loop"] ELSE Idle]
    /\ nNotify = 0
    /\ crashed = FALSE
    /\ kinds = {"plain"}
    /\ last = NoCall
    /\ runs = [i \in {} |-> 0]
    /\ issued = [i \in {} |-> 0]
    /\ removed = {}
    /\ \E p \in Programs :
          api = p.api /\ delay = p.delay /\ killFn = p.killFn
    /\ sigch = <<>>
    /\ nsig = 0
    /\ kills = <<>>
    /\ now = 0
    /\ exited = FALSE
    /\ ex = NoExec

\* the signals that the callers and the OS use: interrupt and terminate,
\* which the bridge turns into Shutdown, and a signal of the application
SysNums == {SIGINT, SIGTERM} \cup (ValidNums \ TermSigs)
SysSigs == {Sys(n) : n \in SysNums}

NextSys ==
    \/ \E t \in Procs, sig \in SysSigs \cup {Bogus} : WaitCall(t, sig)
    \/ \E t \in Threads : AddLock(t)
    \/ \E t \in Threads, sig \in SysSigs, k \in kinds \cup {"close"},
          once \in BOOLEAN : AddBody(t, sig, k, once)
    \/ \E t \in Threads, sig \in SysSigs : NotifyLock(t, sig)
    \/ \E t \in Threads : NotifyScan(t)
    \/ \E t \in Threads : NotifyReturn(t)
    \/ \E c \in Threads : TaskStart(c)
    \/ \E c \in Threads : TaskClose(c)
    \/ \E c \in Threads : TaskReturn(c)
    \/ \E t \in Threads : WaitRecv(t)
    \/ \E t \in Procs, sig \in SysSigs : ShutdownCall(t, sig)
    \/ \E g \in Threads : GoEnd(g)
    \/ Tick
    \/ \E t \in Threads, r \in {"nil", "err"} : ShutdownKill(t, r)
    \/ \E n \in SysNums : Deliver(n)
    \/ \E b \in Threads : BridgeRecv(b)
    \/ \E b \in Threads : BridgeNext(b)

SpecSys == InitSys /\ [][NextSys]_vars

\* ------------------------------------------------------------------- Exec
regvars == <<seq, lock, lns, mask, osreg, so, thr, nNotify, crashed, kinds,
             last, runs, issued, removed>>

\* the error of the context that governs the call: the context derived for
\* the Timeout when there is one, else the caller's; "live" while it is
\* not done
GovErr(e) == IF e.ctx # "none" THEN e.ctx ELSE e.parent
GovDone(e) == GovErr(e) # "live"

\* Exec(ctx, opts) up to cmd.Start(): context.WithTimeout when Timeout > 0
ExecCall(timeout, ttk, onStart, cmdOK, io) ==
    /\ ex.pc = "none"
    /\ ex' = [ex EXCEPT
                !.pc = "called", !.timeout = timeout, !.ttk = ttk,
                !.onStart = onStart, !.cmdOK = cmdOK, !.io = io,
                !.ctx = IF timeout > 0 THEN ex.parent ELSE "none",
                !.deadline = now + timeout]
    /\ UNCHANGED <<regvars, sysvars>>

\* the caller cancels its context, or the deadline of that context passes;
\* a context derived from it that is not done yet is done with the same
\* error
ParentDone(e) ==
    /\ ex.pc # "returned"
    /\ ex.parent = "live"
    /\ ex' = [ex EXCEPT !.parent = e,
                        !.ctx = IF @ = "live" THEN e ELSE @]
    /\ UNCHANGED <<regvars, sysvars>>

\* the timer of context.WithTimeout is due
TimerDue == ex.ctx = "live" /\ now >= ex.deadline

\* the timer fires: the derived context is done with DeadlineExceeded
CtxTimeout ==
    /\ ex.pc \notin {"none", "returned"}
    /\ TimerDue
    /\ ex' = [ex EXCEPT !.ctx = "deadline"]
    /\ UNCHANGED <<regvars, sysvars>>

\* Process.Kill of os/exec is due: WaitDelay after cmd.Cancel returned
KillDue ==
    /\ ex.watch = "cancelled" /\ ex.ttk > 0 /\ ex.child = "running"
    /\ now >= ex.tc + ex.ttk

\* a timer runs: that of the derived context, or that of WaitDelay
TimerRuns ==
    \/ ex.ctx = "live"
    \/ ex.watch = "cancelled" /\ ex.ttk > 0 /\ ex.child = "running"

\* time passes during the call, once the timers that are due have fired;
\* the call is followed up to MaxClock and until the running timers fire
ExecTick ==
    /\ ex.pc \notin {"none", "returned"}
    /\ now < MaxClock \/ TimerRuns
    /\ ~TimerDue /\ ~KillDue
    /\ now' = now + 1
    /\ UNCHANGED <<regvars, api, sigch, nsig, delay, killFn, kills, exited,
                   ex>>

\* cmd.Start(): with a context that is done it returns the error of the
\* context and starts nothing; a command that cannot be started gives an
\* error; else the child runs and os/exec starts to watch the context.
\* Exec returns the error of Start wrapped
\* mutant: Start does not look at the context
StartErrNoCtx(e) ==
    IF ~e.cmdOK THEN "startfail" ELSE "nil"

\* the error of cmd.Start()
StartErr(e) ==
    IF GovDone(e) THEN GovErr(e)
    ELSE IF ~e.cmdOK THEN "startfail"
    ELSE "nil"

\* mutant: Exec goes on after an error of Start
AfterStartOn(err) == "started"

\* if err != nil { return ... } after cmd.Start()
AfterStart(err) == IF err # "nil" THEN "returned" ELSE "started"

\* the stream s of the command: cmd.Stdin is opts.Stdin when that is given;
\* cmd.Stdout and cmd.Stderr are os.Stdout and os.Stderr
CmdStream(io, s) ==
    IF s = "stdin" THEN (IF s \in io THEN "opts" ELSE "default")
    ELSE "default"

ExecStart ==
    /\ ex.pc = "called"
    /\ LET err == StartErr(ex) IN
         ex' = IF err # "nil"
               THEN [ex EXCEPT !.pc = AfterStart(err),
                               !.err = Err("start", err)]
               ELSE [ex EXCEPT !.pc = AfterStart(err),
                               !.child = "running", !.watch = "armed",
                               !.fds = [s \in Streams |->
                                          CmdStream(ex.io, s)]]
    /\ UNCHANGED <<regvars, sysvars>>

\* mutant: OnStart is called without the test for nil
HasOnStartAny(e) == TRUE

\* opts.OnStart != nil
HasOnStart(e) == e.onStart

\* if opts.OnStart != nil { opts.OnStart(cmd) }, then the call of cmd.Wait()
ExecOnStart ==
    /\ ex.pc = "started"
    /\ ex' = [ex EXCEPT !.pc = "waiting",
                        !.nOnStart = IF HasOnStart(ex) THEN @ + 1 ELSE @]
    /\ UNCHANGED <<regvars, sysvars>>

\* the child exits by itself with the given code
ChildExit(code) ==
    /\ ex.child = "running"
    /\ ex' = [ex EXCEPT !.child = "exited", !.code = code]
    /\ UNCHANGED <<regvars, sysvars>>

\* os/exec sees the context done while the child runs and calls cmd.Cancel,
\* the function Exec put there: it calls cancel when there is a derived
\* context, sends nothing to the child and returns nil
WatchCancel ==
    /\ ex.watch = "armed" /\ ex.child = "running"
    /\ GovDone(ex)
    /\ ex' = [ex EXCEPT !.watch = "cancelled", !.tc = now,
                        !.cancelled = IF ex.ctx # "none" THEN TRUE ELSE @]
    /\ UNCHANGED <<regvars, sysvars>>

\* WaitDelay (TTK) after cmd.Cancel the child still runs: os/exec kills it
WatchKill ==
    /\ KillDue
    /\ ex' = [ex EXCEPT !.watch = "killed", !.child = "exited",
                        !.code = -1, !.sent = Append(@, "kill")]
    /\ UNCHANGED <<regvars, sysvars>>

\* mutant: cmd.Wait() gives no error
WaitErrNil(e) == "nil"

\* the error of cmd.Wait(): an ExitError when the child did not exit with
\* code 0, else the error that watching the context left (the error of the
\* context after cmd.Cancel returned nil), else nil
WaitErr(e) ==
    IF e.code # 0 THEN "exit"
    ELSE IF e.watch = "cancelled" THEN GovErr(e)
    ELSE "nil"

\* cmd.Wait() returns when the child has exited
ExecWait ==
    /\ ex.pc = "waiting"
    /\ ex.child = "exited"
    /\ ex' = [ex EXCEPT !.pc = "classify", !.waiterr = WaitErr(ex)]
    /\ UNCHANGED <<regvars, sysvars>>

\* mutant: the error of cmd.Wait is looked at before the context
ClassifyWaitFirst(done, ctxerr, waiterr) ==
    IF waiterr # "nil" THEN Err("wait", waiterr)
    ELSE IF done THEN Err("ctx", ctxerr)
    ELSE NoErr

\* the select after cmd.Wait(): with the context done, its error wrapped;
\* else the error of Wait wrapped, or nil
Classify(done, ctxerr, waiterr) ==
    IF done THEN Err("ctx", ctxerr)
    ELSE IF waiterr # "nil" THEN Err("wait", waiterr)
    ELSE NoErr

\* Exec classifies the result and returns
ExecReturn ==
    /\ ex.pc = "classify"
    /\ ex' = [ex EXCEPT !.pc = "returned",
                        !.err = Classify(GovDone(ex), GovErr(ex),
                                         ex.waiterr)]
    /\ UNCHANGED <<regvars, sysvars>>

InitExec == Init

NextExec ==
    \/ \E timeout \in {0, MaxTimeout}, ttk \in {0, MaxTTK},
          onStart \in BOOLEAN, cmdOK \in BOOLEAN, io \in SUBSET Streams :
         ExecCall(timeout, ttk, onStart, cmdOK, io)
    \/ \E e \in {"canceled", "deadline"} : ParentDone(e)
    \/ CtxTimeout
    \/ ExecTick
    \/ ExecStart
    \/ ExecOnStart
    \/ \E code \in {0, 1} : ChildExit(code)
    \/ WatchCancel
    \/ WatchKill
    \/ ExecWait
    \/ ExecReturn

SpecExec == InitExec /\ [][NextExec]_vars

\* the steps of Exec, of the timers and of os/exec are taken when they can
\* be; the caller need not cancel and the child need not exit
FairExec ==
    /\ WF_vars(CtxTimeout) /\ WF_vars(ExecTick)
    /\ WF_vars(ExecStart) /\ WF_vars(ExecOnStart)
    /\ WF_vars(WatchCancel) /\ WF_vars(WatchKill)
    /\ WF_vars(ExecWait) /\ WF_vars(ExecReturn)

SpecExecFair == SpecExec /\ FairExec

TypeOK ==
    /\ seq \in 0..MaxSeq
    /\ lock \in {Free} \cup Threads
    /\ nNotify \in 0..MaxNotify

\* ------------------------------------------------------------------ C1
\* the step in which goroutine t returns from the call it was in at pc
Returns(t, pc) ==
    t \in DOMAIN thr /\ thr[t].pc = pc /\ (t \in DOMAIN thr' => thr'[t].pc # pc)

\* C1: every add that passed signum returns an id that is not 0 and that no
\* earlier add returned, whatever else runs concurrently; the id is the
\* shared counter, which the call increments by one
C1_FreshIds ==
    [][\A t \in DOMAIN thr :
          Returns(t, "add") =>
             /\ last'.op = "add"
             /\ last'.ret # 0
             /\ last'.ret \notin DOMAIN issued
             /\ seq' = seq + 1 /\ last'.ret = seq'
             /\ issued' = (last'.ret :> 1) @@ issued]_vars

\* two registrations have returned while a Notify call was in progress
C1_Witness ==
    /\ last.op = "add" /\ last.ret = 2
    /\ DOMAIN issued = {1, 2}
    /\ \E t \in DOMAIN thr : thr[t].pc = "wait"

\* ------------------------------------------------------------------ C2
\* C2: in every reachable state each id is on at most one listener, every
\* listener id is between 1 and the counter, and no removed id is in the table
C2_TableIds ==
    /\ \A i, j \in 1..Len(lns) : lns[i].id = lns[j].id => i = j
    /\ \A i \in 1..Len(lns) : lns[i].id >= 1 /\ lns[i].id <= seq
    /\ removed \cap IdsOf(lns) = {}

\* one listener was removed and a later one is registered
C2_Witness ==
    /\ removed # {}
    /\ \E i \in 1..Len(lns) : \A r \in removed : lns[i].id > r

\* ------------------------------------------------------------------ C3
\* the listeners of table tab that are registered for signal number n
Matching(tab, n) == {i \in 1..Len(tab) : tab[i].sig = n}

\* C3: the callback of a Once listener never runs twice; the first Notify
\* that scans the table for its signal while it is registered takes it out of
\* the table and starts it; when that Notify returns it has run exactly once
C3_OnceRunsOnce ==
    [][/\ \A id \in DOMAIN so' : runs'[id] <= 1
       /\ \A t \in DOMAIN thr :
            Returns(t, "scan") =>
               \A i \in Matching(lns, thr[t].sig) :
                  lns[i].once =>
                     /\ lns[i].id \notin IdsOf(lns')
                     /\ Append(t, lns[i].id) \in DOMAIN thr'
                     /\ thr'[Append(t, lns[i].id)].me = lns[i].fn
       /\ \A t \in DOMAIN thr :
            Returns(t, "wait") =>
               \A k \in 1..Len(thr[t].fs) :
                  thr[t].fs[k].so # 0 /\ thr[t].fs[k].kind # "nil" =>
                     runs[thr[t].fs[k].so] = 1]_vars

\* two Notify calls for one signal are in progress together; one of them
\* took the Once listener, whose callback has run once, the other did not
C3_Witness ==
    \E t1, t2 \in Procs :
       /\ thr[t1].pc = "wait" /\ thr[t2].pc = "wait"
       /\ thr[t1].sig = thr[t2].sig
       /\ \E k \in 1..Len(thr[t1].fs) :
             /\ thr[t1].fs[k].so # 0 /\ thr[t1].fs[k].kind # "nil"
             /\ runs[thr[t1].fs[k].so] = 1
       /\ \A k \in 1..Len(thr[t2].fs) : thr[t2].fs[k].so = 0

\* the closure of wrap alone: a state in which the closure made for one Once
\* listener has been handed to two Notify calls, each of which started a
\* goroutine for it (the scan of Notify never produces this state)
WrapFn == wrap([kind |-> "plain", env |-> 1, sig |-> 15, so |-> 0], TRUE, 1)

InitWrap ==
    /\ seq = 1
    /\ lock = Free
    /\ lns = <<>>
    /\ mask = MaskSet(0, 15)
    /\ osreg = [n \in {1, 2, 3, 15} |-> IF n = 15 THEN 2 ELSE 1]
    /\ so = (1 :> FALSE)
    /\ thr = [t \in Procs \cup {Append(p, 1) : p \in Procs} |->
                IF IsTask(t) THEN Spawn(WrapFn)
                ELSE [Idle EXCEPT !.pc = "wait", !.sig = 15,
                                  !.fs = <<WrapFn>>, !.wg = 1]]
    /\ nNotify = MaxNotify
    /\ crashed = FALSE
    /\ kinds = {"plain"}
    /\ last = NoCall
    /\ runs = (1 :> 0)
    /\ issued = (1 :> 1)
    /\ removed = {1}
    /\ api = {}
    /\ sigch = <<>>
    /\ nsig = 0
    /\ delay = 0
    /\ killFn = "stub"
    /\ kills = <<>>
    /\ now = 0
    /\ exited = FALSE
    /\ ex = NoExec

SpecWrap == InitWrap /\ [][Next]_vars

\* the second sentence of C3: so.Do lets the callback run at most once even
\* when the closure is called by two goroutines
WrapAtMostOnce == \A id \in DOMAIN so : runs[id] <= 1

\* both goroutines have called the closure and the callback ran once
WrapWitness ==
    /\ \A t \in DOMAIN thr : ~IsTask(t)
    /\ runs[1] = 1

\* ------------------------------------------------------------------ C4
Range(q) == {q[k] : k \in 1..Len(q)}
\* the argument lists without an id that is not zero
ZeroSeqs == {ids \in IdSeqs : \A k \in 1..Len(ids) : ids[k] = 0}

\* C4: Cancel removes exactly the listeners whose id is among its arguments,
\* keeps the others in their order, and returns; a Notify that scans the
\* table afterwards starts no callback of a listener removed before its scan
C4_CancelFrame ==
    [][/\ \A t \in DOMAIN thr :
            /\ thr[t].pc = "cancel" =>
                  \A ids \in IdSeqs :
                     CancelBody(t, ids) =>
                        /\ lns' = SelectSeq(lns,
                                            LAMBDA l : l.id \notin Range(ids))
                        /\ ~crashed' /\ lock' = Free /\ last'.op = "cancel"
                        /\ thr'[t].pc \in {"idle", "after"}
            /\ thr[t].pc = "idle" /\ last'.op = "cancel" =>
                  \A ids \in ZeroSeqs :
                     CancelNoop(t, ids) => lns' = lns /\ ~crashed'
       /\ \A c \in DOMAIN thr' \ DOMAIN thr : c[Len(c)] \notin removed]_vars

\* a Cancel of a zero id, an unknown id and the id of a listener has just
\* returned, and another listener is still registered
C4_Witness ==
    /\ last.op = "cancel" /\ last.mix
    /\ removed # {} /\ lns # <<>>

\* ------------------------------------------------------------------ C5
\* C5: the scan of Notify(sig) returns false when no listener of the table is
\* registered for sig; otherwise the call goes on to run the callbacks and
\* returns true; no step of the call removes a listener that is not once
C5_NotifyResult ==
    [][\A t \in DOMAIN thr :
          /\ Returns(t, "scan") =>
                /\ Matching(lns, thr[t].sig) = {} =>
                      /\ last' = [NoCall EXCEPT !.op = "notify", !.ret = FALSE]
                      /\ thr'[t].pc \in {"idle", "after"}
                /\ Matching(lns, thr[t].sig) # {} =>
                      thr'[t].pc = "wait" /\ last'.op = "none"
                /\ \A i \in 1..Len(lns) :
                      ~lns[i].once => lns[i] \in Range(lns')
          /\ Returns(t, "wait") =>
                /\ last' = [NoCall EXCEPT !.op = "notify", !.ret = TRUE]
                /\ lns' = lns]_vars

\* Notify has just returned true and a listener that is not once, whose
\* callback it ran, is still registered
C5_Witness ==
    /\ last.op = "notify" /\ last.ret = TRUE
    /\ \E i \in 1..Len(lns) : ~lns[i].once /\ runs[lns[i].id] >= 1

\* ------------------------------------------------------------------ C6
\* C6 as stated: Notify returns true exactly when the call executed at least
\* one callback
C6_TrueIffCallbackRan ==
    [][\A t \in DOMAIN thr :
          /\ Returns(t, "wait") => (last'.ret = TRUE <=> thr[t].nrun >= 1)
          /\ Returns(t, "scan") /\ last'.op = "notify" =>
                (last'.ret = TRUE <=> thr[t].nrun >= 1)]_vars

\* the callbacks of fs that are not nil
UserFns(fs) == {k \in 1..Len(fs) : fs[k].kind # "nil"}

\* C6 amended: Notify returns true exactly when its scan matched at least one
\* listener; the call executes the callback of every matched listener that
\* has one, so it returns true without a callback executed exactly when
\* every matched listener has a nil callback
C6_TrueIffMatched ==
    [][\A t \in DOMAIN thr :
          /\ Returns(t, "scan") =>
                /\ last'.op = "notify" =>
                      /\ last'.ret = FALSE
                      /\ Matching(lns, thr[t].sig) = {}
                      /\ runs' = runs
                /\ last'.op # "notify" =>
                      /\ Len(thr'[t].fs) = Cardinality(Matching(lns, thr[t].sig))
                      /\ Len(thr'[t].fs) >= 1
          /\ Returns(t, "wait") =>
                /\ last'.op = "notify" /\ last'.ret = TRUE
                /\ thr[t].nrun = Cardinality(UserFns(thr[t].fs))]_vars

\* all callbacks of a Notify call are done, the call is about to return true,
\* and it executed none: every listener it matched has a nil callback
C6_Witness ==
    \E t \in DOMAIN thr :
       /\ thr[t].pc = "wait" /\ thr[t].wg = 0
       /\ thr[t].nrun = 0 /\ Len(thr[t].fs) = 2

\* ------------------------------------------------------------------ C7
\* C7: a goroutine that Notify started for a callback exists only while that
\* Notify call is waiting for it: the call has not returned
C7_WaitsForCallbacks ==
    \A c \in DOMAIN thr :
       IsTask(c) => Parent(c) \in DOMAIN thr /\ thr[Parent(c)].pc = "wait"

\* a Notify call returned true after two callbacks ran, one of which panicked
C7_Witness ==
    /\ last.op = "notify" /\ last.ret = TRUE
    /\ \A t \in DOMAIN thr : thr[t].pc = "idle"
    /\ \E i, j \in DOMAIN runs : i # j /\ runs[i] = 1 /\ runs[j] = 1
    /\ kinds = {"plain", "panic"}

\* ------------------------------------------------------------------ C8
\* every step that goroutine t can take
Step(t) ==
    \/ AddLock(t)
    \/ \E sig \in SigValues, k \in kinds \cup {"plain"}, once \in BOOLEAN :
          AddBody(t, sig, k, once)
    \/ CancelLock(t)
    \/ \E ids \in IdSeqs : CancelBody(t, ids)
    \/ \E sig \in SigValues : NotifyLock(t, sig)
    \/ NotifyScan(t)
    \/ NotifyReturn(t)
    \/ TaskStart(t)
    \/ TaskPanic(t)
    \/ TaskReturn(t)

\* C8: the lock is held only inside add, Cancel and the scan of Notify, never
\* by a Notify call whose callbacks run; every goroutine that is inside a
\* call or a callback can take a step, or waits for the lock while its holder
\* can take a step, or waits for callbacks of its own that are not finished
C8_NoDeadlock ==
    /\ lock # Free =>
          lock \in DOMAIN thr /\ thr[lock].pc \in {"add", "cancel", "scan"}
    /\ \A t \in DOMAIN thr :
          thr[t].pc # "idle" =>
             \/ ENABLED Step(t)
             \/ /\ thr[t].pc = "body" /\ lock # Free /\ lock # t
                /\ ENABLED Step(lock)
             \/ /\ thr[t].pc = "wait"
                /\ \E c \in DOMAIN thr : IsTask(c) /\ Parent(c) = t

\* a callback has taken the lock for its own call (On, Cancel of itself, or
\* Notify) while the Notify call that started it waits
C8_Witness ==
    /\ lock # Free /\ IsTask(lock)
    /\ thr[Parent(lock)].pc = "wait"

\* ------------------------------------------------------------------ C9
\* C9: a panic of a callback never ends the process; when Notify returns
\* after a callback panicked, every callback of the call has been executed,
\* none is still running, and the result is true
C9_PanicIsolated ==
    [][/\ ~crashed'
       /\ \A t \in DOMAIN thr :
            Returns(t, "wait") /\ thr[t].npanic >= 1 =>
               /\ thr[t].nrun = Cardinality(UserFns(thr[t].fs))
               /\ \A c \in DOMAIN thr : ~(IsTask(c) /\ Parent(c) = t)
               /\ last' = [NoCall EXCEPT !.op = "notify", !.ret = TRUE]]_vars

\* a Notify call whose two callbacks both ran, one of them panicking, is
\* about to return
C9_Witness ==
    \E t \in DOMAIN thr :
       /\ thr[t].pc = "wait" /\ thr[t].wg = 0
       /\ thr[t].npanic = 1 /\ thr[t].nrun = 2
       /\ \E k \in 1..Len(thr[t].fs) : thr[t].fs[k].kind = "plain"

\* ----------------------------------------------------------------- C10
\* a signal that has no numeric slot: not a syscall.Signal, or out of 0..64
NoSlot(sig) == sig.t # "syscall" \/ sig.n < 0 \/ sig.n >= 65

\* C10: no listener is ever registered and no table scan is ever started for
\* a signal without a slot; On/Once with such a signal return 0 and Notify
\* returns false, and these calls change nothing
C10_InvalidSignal ==
    [][\A t \in DOMAIN thr :
          /\ thr[t].pc = "add" =>
                \A sig \in SigValues, k \in kinds \cup {"plain"},
                   once \in BOOLEAN :
                   NoSlot(sig) => ~AddBody(t, sig, k, once)
          /\ thr[t].pc # "scan" /\ t \in DOMAIN thr' /\ thr'[t].pc = "scan" =>
                \A sig \in SigValues : NoSlot(sig) => ~NotifyLock(t, sig)
          /\ thr[t].pc = "idle" /\ last'.op = "add" =>
                \A sig \in SigValues, once \in BOOLEAN :
                   NoSlot(sig) /\ AddInvalid(t, sig, once) =>
                      /\ last'.ret = 0
                      /\ UNCHANGED <<lns, seq, mask, osreg, thr, runs>>
          /\ thr[t].pc = "idle" /\ last'.op = "notify" =>
                \A sig \in SigValues :
                   NoSlot(sig) /\ NotifyInvalid(t, sig) =>
                      /\ last'.ret = FALSE
                      /\ UNCHANGED <<lns, seq, mask, osreg, thr, runs>>]_vars

\* On or Once has just returned 0 while a listener is registered
C10_Witness ==
    /\ last.op = "add" /\ last.ret = 0
    /\ lns # <<>>

\* ------------------------------------------------------------------ C11
\* goroutine t is inside Wait
InWait(t) == thr[t].up # <<>> /\ Head(thr[t].up).fn = "Wait"

\* C11: when Wait returns, its listener was registered, a scan of Notify has
\* taken it out of the table and its callback ran exactly once, so that no
\* later Notify finds it; and once a scan has taken the listener of a Wait,
\* the channel is closed before that Notify returns: either it is closed
\* already or the goroutine that closes it is one its Notify waits for
C11_WaitUntilNotify ==
    /\ [][\A t \in DOMAIN thr :
            InWait(t) /\ thr'[t].up = <<>> =>
               LET id == Head(thr[t].up).ret
               IN /\ id # 0
                  /\ id \in removed
                  /\ id \notin IdsOf(lns)
                  /\ runs[id] = 1]_vars
    /\ [](\A t \in DOMAIN thr :
            InWait(t) /\ Head(thr[t].up).ret \in removed =>
               \/ Head(thr[t].up).closed
               \/ \E c \in DOMAIN thr :
                     /\ IsTask(c) /\ thr[c].me.so = Head(thr[t].up).ret
                     /\ thr[Parent(c)].pc = "wait")

\* a Wait for a valid signal has returned
C11_Witness == last.op = "wait" /\ last.ret # 0 /\ nNotify = 1

\* ------------------------------------------------------------------ C12
\* C12: the scan of one Notify(sig) collects the listener of every Wait
\* registered for sig and starts a goroutine for each, and when that Notify
\* returns the channel of each of them is closed
C12_OneNotifyAllWaiters ==
    [][\A t \in DOMAIN thr :
          /\ Returns(t, "scan") =>
                \A k \in 1..Len(lns) :
                   lns[k].sig = thr[t].sig /\ lns[k].fn.kind = "close" =>
                      /\ t \in DOMAIN thr' /\ thr'[t].pc = "wait"
                      /\ \E j \in 1..Len(thr'[t].fs) :
                            thr'[t].fs[j] = lns[k].fn
                      /\ Append(t, lns[k].id) \in DOMAIN thr'
          /\ Returns(t, "wait") =>
                \A j \in 1..Len(thr[t].fs) :
                   thr[t].fs[j].kind = "close" =>
                      \A w \in WaiterOf(thr[t].fs[j].env) :
                         Head(thr[w].up).closed]_vars

\* one Notify is about to return after it closed the channels of two Waits
C12_Witness ==
    \E t \in DOMAIN thr :
       /\ thr[t].pc = "wait" /\ thr[t].wg = 0 /\ Len(thr[t].fs) = 2
       /\ \A j \in 1..2 :
             /\ thr[t].fs[j].kind = "close"
             /\ \E w \in WaiterOf(thr[t].fs[j].env) : Head(thr[w].up).closed

\* ------------------------------------------------------------------ C13
\* the step in which goroutine t, inside Shutdown, calls killFn and returns
KillBy(t) ==
    /\ thr[t].up # <<>> /\ Head(thr[t].up).fn = "Shutdown"
    /\ t \in DOMAIN thr' /\ Len(thr'[t].up) = Len(thr[t].up) - 1

\* every call of killFn is made by one Shutdown call, which returns with it
KillOnce ==
    kills' # kills =>
       /\ Len(kills') = Len(kills) + 1
       /\ \E t \in DOMAIN thr : KillBy(t)

\* C13 as stated: with no delay, when Shutdown calls killFn no callback of a
\* listener for SIGTERM is running, whatever Notify calls run concurrently
C13_NoTermCallbackAtKill ==
    [][\A t \in DOMAIN thr :
          KillBy(t) /\ delay = 0 =>
             /\ KillOnce
             /\ \A c \in DOMAIN thr :
                   IsTask(c) => thr[c].me.sig # SIGTERM]_vars

\* C13 amended: with no delay, Shutdown calls killFn once, after its own
\* Notify(SIGTERM) returned: that Notify collected every listener that the
\* table held for SIGTERM at its scan, and each goroutine it started has
\* ended.  A callback that another Notify started may still be running
C13_KillAfterOwnNotify ==
    [][\A t \in DOMAIN thr :
          /\ KillBy(t) /\ delay = 0 =>
                /\ KillOnce
                /\ thr[t].pc = "ret"
                /\ \A c \in DOMAIN thr : IsTask(c) => Parent(c) # t
          /\ t \in InShutdown /\ delay = 0 /\ Returns(t, "scan") =>
                \A k \in 1..Len(lns) :
                   lns[k].sig = SIGTERM /\ ~IsNil(lns[k].fn) =>
                      Append(t, lns[k].id) \in DOMAIN thr'
          /\ t \in InShutdown /\ delay = 0 /\ Returns(t, "wait") =>
                \A c \in DOMAIN thr : IsTask(c) => Parent(c) # t]_vars

\* Shutdown with no delay has returned after a callback ran, in a program
\* whose only Notify is the one of Shutdown
C13_Witness ==
    /\ last.op = "shutdown" /\ delay = 0 /\ "notify" \notin api
    /\ "Shutdown" \in api
    /\ \E id \in DOMAIN runs : runs[id] >= 1

\* ------------------------------------------------------------------ C14
\* C14: with a delay D > 0, Shutdown starts a goroutine for Notify(SIGTERM)
\* when it is called, calls killFn once, and not before D units of time
\* have passed since it was called
C14_KillAfterDelay ==
    [][\A t \in DOMAIN thr' :
          /\ t \in DOMAIN thr /\ KillBy(t) /\ delay > 0 =>
                /\ KillOnce
                /\ thr[t].pc = "sleep"
                /\ kills'[Len(kills')].at >= Head(thr[t].up).t0 + delay
          /\ t \in InShutdown' /\ (t \in DOMAIN thr => t \notin InShutdown)
               /\ delay > 0 =>
                \E g \in DOMAIN thr' \ DOMAIN thr :
                   /\ thr'[g].pc = "call"
                   /\ Head(thr'[g].up).fn = "go"
                   /\ Head(thr'[g].up).sig = Sys(SIGTERM)]_vars

\* Shutdown with a delay has returned, and the callback that its goroutine
\* started ran during the sleep
C14_Witness ==
    /\ last.op = "shutdown" /\ delay > 0 /\ now >= delay
    /\ \E id \in DOMAIN runs : runs[id] >= 1

\* ------------------------------------------------------------------ C15
\* C15: what Shutdown returns is what its one call of killFn returned, nil
\* or the error, with or without a delay; a call of killFn that fails is the
\* last one of that Shutdown
C15_ShutdownResult ==
    [][kills' # kills =>
          /\ KillOnce
          /\ last'.op = "shutdown"
          /\ last'.ret = kills'[Len(kills')].res]_vars

\* Shutdown has returned the error of killFn
C15_Witness ==
    /\ last.op = "shutdown" /\ last.ret = "err"
    /\ kills # <<>> /\ kills[Len(kills)].res = "err"

\* ------------------------------------------------------------------ C16
\* the bridge holds a signal that it received and the call it made for it
\* has returned
BridgeDone == thr[Bridge].pc = "ret" /\ Head(thr[Bridge].up).fn = "bridge"

\* C16: for hangup, interrupt, quit and terminate the bridge calls
\* Shutdown(SIGTERM) and, when Shutdown has returned nil or an error, ends
\* the process; for any other signal it calls Notify for that signal and,
\* when Notify has returned true or false, goes back to its receive
C16_BridgeSwitch ==
    [][/\ thr[Bridge].pc = "loop" /\ thr'[Bridge].pc # "loop" =>
             LET n == Head(sigch)
                 f == Head(thr'[Bridge].up)
             IN IF n \in TermSigs
                THEN /\ f.fn = "Shutdown" /\ f.arg = Sys(SIGTERM)
                     /\ Len(thr'[Bridge].up) = 2
                ELSE /\ f.fn = "bridge" /\ f.sig = Sys(n)
                     /\ thr'[Bridge].pc = "call"
                     /\ Callee(f.fn) = "notify"
       /\ BridgeDone /\ thr'[Bridge] # thr[Bridge] =>
             IF Head(thr[Bridge].up).arg.n \in TermSigs
             THEN exited'
             ELSE ~exited' /\ thr'[Bridge].pc = "loop"]_vars

\* the process has ended after a Shutdown of the bridge that returned an
\* error
C16_Witness == exited /\ last.op = "bridge" /\ last.ret = "err"

\* ------------------------------------------------------------------ C17
\* C17 as stated: when the bridge has dealt with a signal s that it
\* received, the callback of every listener that On registered for s before
\* the signal was received, and that is still registered, has run since
C17_ListenerRunsOnSignal ==
    [][BridgeDone /\ thr'[Bridge] # thr[Bridge] =>
          LET f == Head(thr[Bridge].up)
          IN \A k \in 1..Len(lns) :
                /\ lns[k].sig = f.arg.n /\ ~lns[k].once
                /\ lns[k].id \in DOMAIN f.seen
                => runs[lns[k].id] > f.seen[lns[k].id]]_vars

\* ------------------------------------------------------------------ C18
\* C18 as stated: signal.Notify has been called at most once for each signal
\* number, the call of registerSignalListener for the four signals of
\* termination counted
C18_RegisteredAtMostOnce == \A n \in DOMAIN osreg : osreg[n] <= 1

\* ------------------------------------------------------------------ C19
\* C19 as stated: when On or Once returns an id for signal number s,
\* signal.Notify has been called for s
C19_RegisteredWithOS ==
    [][\A t \in DOMAIN thr :
          Returns(t, "add") /\ last'.op = "add" /\ last'.ret # 0 =>
             lns'[Len(lns')].sig \in DOMAIN osreg']_vars

\* ------------------------------------------------------------------ C20
\* C20: when Exec classifies the result of cmd.Wait with the governing
\* context done (cancelled, or past its deadline), it returns an error that
\* wraps the error of the context, never the error of the exit code; that
\* is the case whenever the Timeout has passed
C20_ContextErrorFirst ==
    [][ex.pc = "classify" /\ ex'.pc = "returned" =>
          /\ GovDone(ex) => ex'.err = Err("ctx", GovErr(ex))
          /\ ex.timeout > 0 /\ now > ex.deadline =>
                ex'.err.kind = "ctx"
          /\ ex'.err.kind = "ctx" =>
                ex'.err.wraps \in {"canceled", "deadline"}]_vars

\* Exec has returned the error of the deadline for a child that ended with
\* an exit code that is not 0 after the Timeout
C20_Witness ==
    /\ ex.pc = "returned" /\ ex.err = Err("ctx", "deadline")
    /\ ex.code # 0 /\ ex.timeout > 0 /\ ex.parent = "live"

\* ------------------------------------------------------------------ C21
\* the step in which Exec classifies the result and returns
Classifies == ex.pc = "classify" /\ ex'.pc = "returned"

\* C21 (as stated): Exec returns nil whenever the child exited with code 0,
\* and an error that wraps the exit cause whenever it exited with another
\* code, however the exit falls relative to the end of the governing context
C21_ExitCodeDecides ==
    [][Classifies =>
          /\ ex.code = 0 => ex'.err = NoErr
          /\ ex.code # 0 => ex'.err.kind # "nil" /\ ex'.err.wraps = "exit"]_vars

\* C21 (amended): when the governing context is not done as Exec classifies
\* the result, Exec returns nil for exit code 0 and an error that wraps the
\* exit cause for another code; when the context is done, Exec returns an
\* error that wraps the error of the context, whatever the exit code is
C21_ExitCodeUnlessContextDone ==
    [][Classifies =>
          /\ ~GovDone(ex) /\ ex.code = 0 => ex'.err = NoErr
          /\ ~GovDone(ex) /\ ex.code # 0 => ex'.err = Err("wait", "exit")
          /\ GovDone(ex) => ex'.err = Err("ctx", GovErr(ex))
          /\ ex.code # 0 => ex'.err # NoErr]_vars

\* Exec has returned the wrapped exit error of a child that exited with
\* code 1 while the context derived for the Timeout was not done
C21_Witness ==
    /\ ex.pc = "returned" /\ ex.err = Err("wait", "exit")
    /\ ex.code = 1 /\ ex.ctx = "live"

\* ------------------------------------------------------------------ C22
\* C22: when the command cannot be started, Exec returns from the step of
\* cmd.Start() with an error that wraps the error of Start; OnStart is not
\* called, there is no child and cmd.Wait() is not called
C22_StartFailure ==
    (~ex.cmdOK /\ ex.pc \notin {"none", "called"}) =>
        /\ ex.pc = "returned"
        /\ ex.err.kind = "start"
        /\ ex.err.wraps \in {"startfail", "canceled", "deadline"}
        /\ ex.nOnStart = 0
        /\ ex.child = "none"
        /\ ex.waiterr = "none"

\* Exec with OnStart given has returned the wrapped start failure
C22_Witness ==
    /\ ~ex.cmdOK /\ ex.onStart
    /\ ex.pc = "returned" /\ ex.err = Err("start", "startfail")

\* ------------------------------------------------------------------ C23
\* C23: OnStart is called once when it is given and the child was started,
\* and never otherwise; the call is the step of Exec between cmd.Start(),
\* after which the child exists, and cmd.Wait()
C23_OnStartOnce ==
    /\ [](ex.nOnStart = IF ex.onStart /\ ex.child # "none"
                           /\ ex.pc # "started"
                        THEN 1 ELSE 0)
    /\ [][ex'.nOnStart # ex.nOnStart =>
             /\ ex.pc = "started" /\ ex'.pc = "waiting"
             /\ ex.child # "none" /\ ex.waiterr = "none"]_vars

\* OnStart was called once, the child runs and Exec waits for it
C23_Witness ==
    /\ ex.onStart /\ ex.nOnStart = 1
    /\ ex.pc = "waiting" /\ ex.child = "running"

\* ------------------------------------------------------------------ C24
\* C24: with the governing context done before cmd.Start(), Exec starts no
\* child; a child that was started is never left behind: Exec is at the call
\* of OnStart or has made it (when OnStart is given), and Exec is on its way
\* to cmd.Wait(), in it, or past it
C24_NoUnmanagedChild ==
    /\ [][ex.pc = "called" /\ GovDone(ex) =>
             ex'.child = "none" /\ ex'.pc \in {"called", "returned"}]_vars
    /\ [](ex.child # "none" =>
             /\ ex.pc = "started"
                \/ ex.nOnStart = (IF ex.onStart THEN 1 ELSE 0)
             /\ ex.pc \in {"started", "waiting"} \/ ex.waiterr # "none")

\* Exec was called for a command that can be started, with a context that
\* was cancelled before cmd.Start(), and has returned without a child
C24_Witness ==
    /\ ex.cmdOK /\ ex.onStart
    /\ ex.pc = "returned" /\ ex.child = "none"
    /\ ex.err = Err("start", "canceled")

\* ------------------------------------------------------------------ C25
\* C25 (as stated): with TTK > 0, when the governing context is done while
\* the child runs, the child is sent an interrupt first; the kill is sent
\* only after the interrupt, when the child still runs TTK later
C25_InterruptBeforeKill ==
    /\ [][ex.ttk > 0 /\ ex.child = "running"
          /\ ex.watch = "armed" /\ ex'.watch = "cancelled" =>
             ex'.sent = <<"interrupt">>]_vars
    /\ [][ex'.sent # ex.sent /\ ex'.sent = Append(ex.sent, "kill") =>
             /\ ex.sent = <<"interrupt">>
             /\ ex.child = "running"
             /\ now >= ex.tc + ex.ttk]_vars

\* ------------------------------------------------------------------ C26
\* C26 (as stated): each of the three streams of the child is the stream of
\* the options when one is given, and the default stream otherwise
C26_StreamsFromOptions ==
    ex.child # "none" =>
        \A s \in Streams :
            ex.fds[s] = IF s \in ex.io THEN "opts" ELSE "default"

\* ------------------------------------------------------------------ C27
\* C27 (as stated): when the governing context is done while the child runs,
\* the child is made to stop and Exec returns, also for a child that never
\* exits by itself, with TTK = 0 and with TTK > 0
C27_TimeoutBounds ==
    (ex.child = "running" /\ GovDone(ex)) ~>
        (ex.pc = "returned" /\ ex.child = "exited")

\* ------------------------------------------------------------------ C28
\* the step in which goroutine t, in Notify, scans the table and starts the
\* goroutines of the callbacks
Scans(t) ==
    /\ t \in DOMAIN thr /\ thr[t].pc = "scan"
    /\ t \in DOMAIN thr' /\ thr'[t].pc = "wait"

\* the positions of the listeners for n in the table, the last one first
RevMatching(tab, n) ==
    LET M == Matching(tab, n) IN
    CHOOSE q \in [1..Cardinality(M) -> M] :
        \A a, b \in 1..Cardinality(M) : a < b => q[a] > q[b]

\* C28: one Notify collects the callbacks of the listeners for its signal
\* from the last one registered to the first one, and starts their
\* goroutines in that order: of two such listeners, the goroutine of the one
\* registered later is started in an earlier turn of the loop
C28_ReverseOrder ==
    [][\A t \in DOMAIN thr : Scans(t) =>
          LET n == thr[t].sig
              q == RevMatching(lns, n)
          IN /\ thr'[t].fs = [k \in 1..Len(q) |-> lns[q[k]].fn]
             /\ \A i, j \in Matching(lns, n) :
                   (i < j /\ ~IsNil(lns[i].fn) /\ ~IsNil(lns[j].fn)) =>
                      /\ lns[i].id < lns[j].id
                      /\ thr'[Append(t, LidOf(lns[j].fn))].ord
                            < thr'[Append(t, LidOf(lns[i].fn))].ord]_vars

\* a Notify waits for the callbacks of two listeners; the goroutine of the
\* one registered later was started first, and both are still to run
C28_Witness ==
    \E t \in DOMAIN thr :
        /\ thr[t].pc = "wait" /\ Len(thr[t].fs) = 2
        /\ ~IsNil(thr[t].fs[1]) /\ ~IsNil(thr[t].fs[2])
        /\ LidOf(thr[t].fs[1]) > LidOf(thr[t].fs[2])
        /\ \A k \in 1..2 :
              LET c == Append(t, LidOf(thr[t].fs[k])) IN
              c \in DOMAIN thr /\ thr[c].pc = "spawned" /\ thr[c].ord = k

FanAdd(t) == nNotify = 0 /\ AddLock(t)

\* the listeners are registered with On for SIGTERM or for another signal,
\* with callbacks that return or panic; then the callers call
\* Notify(SIGTERM), also at the same time
InitFan ==
    /\ seq = 0
    /\ lock = Free
    /\ lns = <<>>
    /\ mask = 0
    /\ osreg = [n \in {1, 2, 3, 15} |-> 1]
    /\ so = [h \in {} |-> FALSE]
    /\ thr = [t \in Procs |-> Idle]
    /\ nNotify = 0
    /\ crashed = FALSE
    /\ kinds = {"plain", "panic"}
    /\ last = NoCall
    /\ runs = [i \in {} |-> 0]
    /\ issued = [i \in {} |-> 0]
    /\ removed = {}
    /\ api = {"on", "notify"}
    /\ sigch = <<>>
    /\ nsig = 0
    /\ delay = 0
    /\ killFn = "stub"
    /\ kills = <<>>
    /\ now = 0
    /\ exited = FALSE
    /\ ex = NoExec

NextFan ==
    \/ \E t \in Procs : FanAdd(t)
    \/ \E t \in Procs, n \in ValidNums, k \in kinds :
          AddBody(t, Sys(n), k, FALSE)
    \/ \E t \in Procs : NotifyLock(t, Sys(SIGTERM))
    \/ \E t \in Threads : NotifyScan(t)
    \/ \E t \in Threads : NotifyReturn(t)
    \/ \E c \in Threads : TaskStart(c)
    \/ \E c \in Threads : TaskPanic(c)
    \/ \E c \in Threads : TaskReturn(c)

SpecFan == InitFan /\ [][NextFan]_vars

\* the executions of the callbacks of the listeners of a table
RECURSIVE TotalRuns(_)
TotalRuns(tab) ==
    IF tab = <<>> THEN 0 ELSE runs[Head(tab).id] + TotalRuns(Tail(tab))

\* no caller is inside Notify: the nNotify calls made have all returned
NoNotifyRuns == \A t \in Procs : thr[t].pc \notin {"scan", "wait"}

\* C30: with m On listeners for a signal and no change of the registrations,
\* when k Notify calls for the signal have returned, in whatever way they
\* overlapped, the callback of each of the m listeners was executed k times,
\* m * k executions in all; before that no callback was executed more than
\* k times, and every listener registered stays in the table
C30_FanOut ==
    LET m == Cardinality(Matching(lns, SIGTERM))
        k == nNotify
    IN /\ IdsOf(lns) = DOMAIN runs /\ Len(lns) = seq
       /\ \A i \in 1..Len(lns) : runs[lns[i].id] <= k
       /\ NoNotifyRuns =>
             /\ \A i \in 1..Len(lns) :
                   runs[lns[i].id] = IF lns[i].sig = SIGTERM THEN k ELSE 0
             /\ TotalRuns(lns) = m * k

\* two Notify calls have returned with two listeners registered: each
\* callback was executed twice
C30_Witness ==
    /\ NoNotifyRuns /\ nNotify = 2
    /\ Cardinality(Matching(lns, SIGTERM)) = 2
    /\ \A i \in Matching(lns, SIGTERM) : runs[lns[i].id] = 2
    /\ \E i \in 1..Len(lns) : lns[i].fn.kind = "panic"

\* ------------------------------------------------------------------ C31
\* goroutine t is inside Shutdown, or is the goroutine that Shutdown started
\* for Notify
Notifier(t) ==
    /\ t \in DOMAIN thr /\ thr[t].up # <<>>
    /\ Head(thr[t].up).fn \in {"Shutdown", "go"}

\* C31: whatever signal Shutdown is called with, the Notify that it makes,
\* itself or in its goroutine, is for SIGTERM, so that only callbacks of
\* listeners for SIGTERM are started for it; killFn is called with the
\* argument of Shutdown
C31_ShutdownSignals ==
    /\ [][\A t \in DOMAIN thr' :
            /\ (t \in InShutdown' /\ (t \in DOMAIN thr => t \notin InShutdown))
                  => Head(thr'[t].up).sig = Sys(SIGTERM)
            /\ (t \notin DOMAIN thr /\ thr'[t].up # <<>>
                /\ Head(thr'[t].up).fn = "go")
                  => Head(thr'[t].up).sig = Sys(SIGTERM)
            /\ (Notifier(t) /\ thr[t].pc = "call" /\ thr'[t].pc = "scan")
                  => thr'[t].sig = SIGTERM
            /\ (t \in DOMAIN thr /\ KillBy(t))
                  => /\ KillOnce
                     /\ kills'[Len(kills')].sig = Head(thr[t].up).arg]_vars
    /\ [](\A c \in DOMAIN thr :
            (IsTask(c) /\ Notifier(Parent(c))) => thr[c].me.sig = SIGTERM)

\* Shutdown(SIGINT) has returned: killFn was called with SIGINT, the callback
\* of a listener for SIGTERM ran and that of a listener for SIGINT did not
C31_Witness ==
    /\ last.op = "shutdown" /\ "notify" \notin api
    /\ kills # <<>> /\ kills[1].sig = Sys(SIGINT)
    /\ \E i, j \in 1..Len(lns) :
          /\ lns[i].sig = SIGTERM /\ runs[lns[i].id] = 1
          /\ lns[j].sig = SIGINT /\ runs[lns[j].id] = 0

\* ------------------------------------------------------------------ C32
\* C32: with a delay D > 0 Shutdown calls killFn from its sleep, D after it
\* was called; while it sleeps, time can pass until then and killFn can be
\* called from then on, whatever the callbacks for SIGTERM do, which run
\* under another goroutine.  With no delay Shutdown calls killFn on the
\* return of its Notify, when every callback that this Notify started has
\* returned
C32_DelayNotExtended ==
    /\ [][\A t \in DOMAIN thr :
            /\ KillBy(t) /\ delay > 0 =>
                  /\ thr[t].pc = "sleep"
                  /\ now >= Head(thr[t].up).t0 + delay
                  /\ \A c \in DOMAIN thr : IsTask(c) => Parent(c) # t
            /\ KillBy(t) /\ delay = 0 =>
                  /\ thr[t].pc = "ret"
                  /\ \A c \in DOMAIN thr : IsTask(c) => Parent(c) # t]_vars
    /\ [](\A t \in DOMAIN thr :
            (Running /\ thr[t].pc = "sleep") =>
               IF now < Head(thr[t].up).t0 + delay
               THEN ENABLED Tick
               ELSE ENABLED ShutdownKill(t, "nil"))
    /\ [](\A c \in DOMAIN thr :
            (IsTask(c) /\ Parent(c) \in InShutdown) =>
               thr[Parent(c)].pc = "wait")

\* Shutdown with a delay has called killFn and returned while a callback
\* that its goroutine started is still running
C32_Witness ==
    /\ last.op = "shutdown" /\ delay > 0 /\ kills # <<>>
    /\ \E c \in DOMAIN thr :
          /\ IsTask(c) /\ thr[c].pc = "body"
          /\ Head(thr[Parent(c)].up).fn = "go"

\* ------------------------------------------------------------------ C38
\* C38 (as stated): with kill as the termination function and no signal
\* from outside, a call Shutdown(SIGTERM) by a caller leads to one call of
\* killFn and one run of each callback for SIGTERM: the signal that kill
\* sends to the process does not make the bridge call Shutdown again
C38_SingleShutdown ==
    (/\ killFn = "kill" /\ nsig = 0 /\ "notify" \notin api
     /\ kills # <<>> /\ kills[1].sig = Sys(SIGTERM)) =>
        /\ Len(kills) <= 1
        /\ Bridge \notin InShutdown
        /\ \A id \in DOMAIN runs : runs[id] <= 1

\* ------------------------------------------------------------------ C40
\* goroutine t is inside Wait for a signal that signum rejects
InWaitInvalid(t) ==
    /\ t \in DOMAIN thr /\ InWait(t)
    /\ signum(Head(thr[t].up).arg) = -1

\* C40: Wait with a signal that signum rejects registers no listener (Once
\* returns 0) and stays at its receive for ever, whatever Notify calls and
\* signals follow; no Wait returns for a listener id 0
C40_WaitInvalidBlocks ==
    /\ [][\A t \in DOMAIN thr' :
            /\ (InWaitInvalid(t)') /\ (t \in DOMAIN thr => ~InWait(t)) =>
                  /\ lns' = lns /\ seq' = seq /\ mask' = mask
                  /\ thr'[t].pc = "ret"
                  /\ Head(thr'[t].up).ret = 0
                  /\ ~Head(thr'[t].up).closed
            /\ InWaitInvalid(t) => thr'[t] = thr[t]]_vars
    /\ [](last.op = "wait" => last.ret # 0)

\* a Notify has returned true while a goroutine is inside Wait for a value
\* that is no syscall.Signal
C40_Witness ==
    /\ last.op = "notify" /\ last.ret = TRUE
    /\ \E t \in DOMAIN thr : InWaitInvalid(t)

\* ------------------------------------------------------------------ C39
\* C39 (as stated): when Exec has returned from a call with Timeout > 0,
\* the context it derived with context.WithTimeout is done (by its timer,
\* by the caller's context or by cancel), so that its timer is released
C39_ContextReleased ==
    (ex.pc = "returned" /\ ex.timeout > 0) =>
        (ex.ctx # "live" \/ ex.cancelled)

\* ------------------------------------------------------------------ C35
\* the listeners that a Cancel which has returned removed: the listeners
\* registered with On that are no longer in the table (a scan removes only
\* listeners registered with Once, which are the domain of so)
Cancelled == removed \ DOMAIN so

\* C35 (as stated): once Cancel has returned for the id of a listener, no
\* step starts the callback of that listener, whichever Notify collected it
C35_NoStartAfterCancel ==
    [][\A id \in Cancelled : runs'[id] = runs[id]]_vars

\* ------------------------------------------------------------------ C36
\* the goroutines that run a callback for the Notify of goroutine t
TasksOf(t) == {c \in DOMAIN thr : IsTask(c) /\ Parent(c) = t}

\* C36: the callbacks of one Notify are fixed by its scan: fs holds the
\* callback of every listener that the table has for the signal at the scan,
\* and nothing else; the goroutines of the call are started by the scan step,
\* one for each callback of fs that is not nil, and each one runs its own
\* callback.  A registration that follows the scan changes neither fs nor
\* the goroutines of the call; the scan of a later Notify for the signal
\* collects that listener as any other.  On return the call has run every
\* callback of fs that is not nil
C36_ScanFixesCallbacks ==
    /\ [][\A t \in DOMAIN thr :
            /\ Scans(t) =>
                  LET n == thr[t].sig
                      q == RevMatching(lns, n)
                  IN /\ thr'[t].fs = [k \in 1..Len(q) |-> lns[q[k]].fn]
                     /\ {thr'[c].me : c \in {x \in DOMAIN thr' :
                                     IsTask(x) /\ Parent(x) = t}}
                           = {f \in Range(thr'[t].fs) : ~IsNil(f)}
            /\ (thr[t].pc = "wait" /\ t \in DOMAIN thr'
                /\ thr'[t].pc = "wait") =>
                  /\ thr'[t].fs = thr[t].fs
                  /\ {x \in DOMAIN thr' : IsTask(x) /\ Parent(x) = t}
                        \subseteq TasksOf(t)
            /\ Returns(t, "wait") =>
                  thr[t].nrun = Cardinality(UserFns(thr[t].fs))
            /\ \A id \in DOMAIN runs :
                  (/\ IsTask(t) /\ runs'[id] # runs[id]
                   /\ thr[t].pc = "spawned" /\ thr'[t].pc = "body") =>
                      /\ LidOf(thr[t].me) = id
                      /\ thr[t].me \in Range(thr[Parent(t)].fs)]_vars
    /\ [](\A c \in DOMAIN thr :
            IsTask(c) => thr[c].me \in Range(thr[Parent(c)].fs))

\* a Notify still waits for a callback that registered a listener for its
\* signal after the scan: the call did not collect that listener, and a
\* second Notify for the signal has collected it and run its callback
C36_Witness ==
    \E t, u \in DOMAIN thr : \E i \in 1..Len(lns) :
        /\ t # u /\ thr[t].pc = "wait" /\ thr[u].pc = "wait"
        /\ thr[t].sig = lns[i].sig /\ thr[u].sig = lns[i].sig
        /\ lns[i].fn \notin Range(thr[t].fs)
        /\ \E c \in TasksOf(t) : thr[c].me.kind = "on" /\ thr[c].pc = "after"
        /\ lns[i].fn \in Range(thr[u].fs)
        /\ runs[lns[i].id] = 1

\* ------------------------------------------------------------------ C37
\* the test of a Once listener that several goroutines notify at the same
\* time: one listener is registered with Once for SIGTERM, listeners with
\* On for another signal; then the callers call Notify(SIGTERM)
OnceAdd(t) == nNotify = 0 /\ AddLock(t)

\* proc.Once(syscall.SIGTERM, fn) when SIGTERM has no listener, proc.On for
\* another signal
OnceAddBody(t, n, k) ==
    /\ n = SIGTERM => Matching(lns, SIGTERM) = {}
    /\ AddBody(t, Sys(n), k, n = SIGTERM)

\* proc.Notify(syscall.SIGTERM), once the Once listener is registered
OnceNotify(t) ==
    /\ DOMAIN so # {}
    /\ NotifyLock(t, Sys(SIGTERM))

InitOnce ==
    /\ seq = 0
    /\ lock = Free
    /\ lns = <<>>
    /\ mask = 0
    /\ osreg = [n \in {1, 2, 3, 15} |-> 1]
    /\ so = [h \in {} |-> FALSE]
    /\ thr = [t \in Procs |-> Idle]
    /\ nNotify = 0
    /\ crashed = FALSE
    /\ kinds = {"plain", "panic"}
    /\ last = NoCall
    /\ runs = [i \in {} |-> 0]
    /\ issued = [i \in {} |-> 0]
    /\ removed = {}
    /\ api = {"on", "notify"}
    /\ sigch = <<>>
    /\ nsig = 0
    /\ delay = 0
    /\ killFn = "stub"
    /\ kills = <<>>
    /\ now = 0
    /\ exited = FALSE
    /\ ex = NoExec

NextOnce ==
    \/ \E t \in Procs : OnceAdd(t)
    \/ \E t \in Procs, n \in ValidNums, k \in kinds : OnceAddBody(t, n, k)
    \/ \E t \in Procs : OnceNotify(t)
    \/ \E t \in Threads : NotifyScan(t)
    \/ \E t \in Threads : NotifyReturn(t)
    \/ \E c \in Threads : TaskStart(c)
    \/ \E c \in Threads : TaskPanic(c)
    \/ \E c \in Threads : TaskReturn(c)

SpecOnce == InitOnce /\ [][NextOnce]_vars

\* the Notify calls that collected the Once listener and have returned: a
\* scan has taken the listener out of the table and no call waits for it
TrueReturns ==
    Cardinality(removed) - Cardinality({t \in Procs : thr[t].pc = "wait"})

\* the Notify calls that have returned
NotifyReturns ==
    nNotify - Cardinality({t \in Procs : thr[t].pc \in {"scan", "wait"}})

\* C37: with one Once listener as the only listener for the signal, exactly
\* one of the Notify calls for the signal returns true and all the others
\* return false, however the calls overlap.  TrueReturns counts the returns
\* of true (it goes up by one in exactly the steps in which a Notify returns
\* true), it never exceeds 1, and it is 1 once all calls have returned; a
\* Notify returns true only for the Once listener it collected, which no
\* other call collects
C37_OneTrue ==
    /\ [][/\ (last'.op = "notify" /\ last'.ret = TRUE)
                => /\ TrueReturns' = TrueReturns + 1
                   /\ NotifyReturns' = NotifyReturns + 1
          /\ (last'.op = "notify" /\ last'.ret = FALSE)
                => /\ TrueReturns' = TrueReturns
                   /\ NotifyReturns' = NotifyReturns + 1
          /\ last'.op # "notify"
                => /\ TrueReturns' = TrueReturns
                   /\ NotifyReturns' = NotifyReturns
          /\ \A t \in Procs : Scans(t) =>
                /\ removed = {} /\ removed' = DOMAIN so
                /\ thr'[t].fs = <<lns[CHOOSE i \in Matching(lns, SIGTERM) :
                                         TRUE].fn>>]_vars
    /\ [](/\ Cardinality(DOMAIN so) <= 1
          /\ TrueReturns \in {0, 1}
          /\ (NoNotifyRuns /\ nNotify >= 1) =>
                /\ TrueReturns = 1
                /\ NotifyReturns - TrueReturns = nNotify - 1
                /\ Matching(lns, SIGTERM) = {})

\* two Notify calls run at the same time: one has collected the Once
\* listener and waits for its callback, which runs; the other one has
\* just returned false
C37_Witness ==
    /\ nNotify = 2
    /\ last.op = "notify" /\ last.ret = FALSE
    /\ \E t \in Procs : thr[t].pc = "wait" /\ thr[t].nrun = 1
    /\ \A id \in DOMAIN so : runs[id] = 1

\* ------------------------------------------------------------------ C33
\* the signals of the runs made for the mask and for the table: SIGINT and
\* SIGTERM, whose bits of the mask differ
TabNums == {SIGINT, SIGTERM}

\* the process after init() of the package, with callers that use the
\* functions a; the callbacks only return, Shutdown has no delay and the
\* termination function is a stub
InitReg(a) ==
    /\ seq = 0
    /\ lock = Free
    /\ lns = <<>>
    /\ mask = 0
    /\ osreg = [n \in TermSigs |-> 1]
    /\ so = [h \in {} |-> FALSE]
    /\ thr = [t \in Procs |-> Idle]
    /\ nNotify = 0
    /\ crashed = FALSE
    /\ kinds = {"plain"}
    /\ last = NoCall
    /\ runs = [i \in {} |-> 0]
    /\ issued = [i \in {} |-> 0]
    /\ removed = {}
    /\ api = a
    /\ sigch = <<>>
    /\ nsig = 0
    /\ delay = 0
    /\ killFn = "stub"
    /\ kills = <<>>
    /\ now = 0
    /\ exited = FALSE
    /\ ex = NoExec

\* the callers register, cancel, notify and call Shutdown
InitMask == InitReg({"on", "cancel", "notify", "Shutdown"})

NextMask ==
    \/ \E t \in Procs : AddLock(t)
    \/ \E t \in Procs, n \in TabNums, once \in BOOLEAN :
          AddBody(t, Sys(n), "plain", once)
    \/ \E t \in Procs, ids \in IdSeqs : CancelNoop(t, ids)
    \/ \E t \in Procs : CancelLock(t)
    \/ \E t \in Procs, ids \in IdSeqs : CancelBody(t, ids)
    \/ \E t \in Procs, n \in TabNums : NotifyLock(t, Sys(n))
    \/ \E t \in Threads : NotifyScan(t)
    \/ \E t \in Threads : NotifyReturn(t)
    \/ \E c \in Threads : TaskStart(c)
    \/ \E c \in Threads : TaskReturn(c)
    \/ \E t \in Procs, n \in TabNums : ShutdownCall(t, Sys(n))
    \/ \E t \in Procs, r \in {"nil", "err"} : ShutdownKill(t, r)

SpecMask == InitMask /\ [][NextMask]_vars

\* the signals that the process has subscribed to with signal.Notify
Subscribed == {n \in DOMAIN osreg : osreg[n] > 0}

\* the bits of the mask m (bit 31 belongs to no signal of the runs)
Bits(m) == {b \in 0..30 : MaskBit(m, b) = 1}

InitTab == InitReg({"on", "cancel", "notify", "table"})

NextTab ==
    \/ \E t \in Procs : AddLock(t)
    \/ \E t \in Procs, n \in TabNums, once \in BOOLEAN :
          AddBody(t, Sys(n), "plain", once)
    \/ \E t \in Procs, ids \in IdSeqs : CancelNoop(t, ids)
    \/ \E t \in Procs : CancelLock(t)
    \/ \E t \in Procs, ids \in IdSeqs : CancelBody(t, ids)
    \/ \E t \in Procs, n \in TabNums : NotifyLock(t, Sys(n))
    \/ \E t \in Threads : NotifyScan(t)
    \/ \E t \in Threads : NotifyReturn(t)
    \/ \E c \in Threads : TaskStart(c)
    \/ \E c \in Threads : TaskReturn(c)

SpecTab == InitTab /\ [][NextTab]_vars

\* the listeners of tab that tab2 still holds, in the order of tab
Kept(tab, tab2) == SelectSeq(tab, LAMBDA l : l.id \in IdsOf(tab2))

\* C34: add puts the new listener behind all the others; Cancel and the scan
\* of Notify take listeners out and leave the others in the order they had
\* (the scan takes out the once listeners for its signal and nothing else);
\* no other step changes the table, and neither Cancel nor Notify changes
\* the counter of the ids
C34_OrderKept ==
    [][/\ \A t \in DOMAIN thr :
            /\ Returns(t, "add") =>
                  /\ Len(lns') = Len(lns) + 1
                  /\ SubSeq(lns', 1, Len(lns)) = lns
                  /\ lns'[Len(lns')].id = seq' /\ seq' = seq + 1
            /\ Returns(t, "cancel") =>
                  /\ lns' = Kept(lns, lns')
                  /\ seq' = seq
            /\ Returns(t, "scan") =>
                  /\ lns' = Kept(lns, lns')
                  /\ \A i \in 1..Len(lns) :
                        lns[i].id \notin IdsOf(lns') <=>
                           (lns[i].sig = thr[t].sig /\ lns[i].once)
                  /\ seq' = seq
            /\ Returns(t, "wait") => lns' = lns /\ seq' = seq
       /\ lns' # lns =>
             \E t \in DOMAIN thr :
                Returns(t, "add") \/ Returns(t, "cancel") \/ Returns(t, "scan")
       /\ last'.op \in {"cancel", "notify"} => seq' = seq
       /\ seq' # seq => last'.op = "add"]_vars

\* three listeners were registered; a Notify has returned true whose scan
\* took the first one, a once listener, out of the table: the second and
\* the third one are left, in this order
C34_Witness ==
    /\ last.op = "notify" /\ last.ret = TRUE
    /\ seq = 3 /\ removed = {1} /\ 1 \in DOMAIN so
    /\ Len(lns) = 2 /\ lns[1].id = 2 /\ lns[2].id = 3

====
